---- MODULE Spec2Model ----
(***************************************************************************)
(* Model of dakara_base.safe_workers: the safe wrapper, SafeThread and     *)
(* SafeTimer, the workers (BaseWorker, Worker, WorkerSafeThread,           *)
(* WorkerSafeTimer) as context managers, and Runner.run_safe.              *)
(*                                                                         *)
(* One main thread runs one of three programs, chosen in Init (scenario):  *)
(*   "unit"   create a unit, start it, join it (SafeThreadTestCase,        *)
(*            SafeTimerTestCase) or call a @safe method (SafeTestCase);    *)
(*   "scope"  with W(stop, errors) as worker: start / join / raise         *)
(*            (WorkerTestCase, WorkerSafeThreadTestCase, ...TimerTestCase);*)
(*   "runner" Runner().run_safe(W, run_main=...).                          *)
(* Units (threads, timers) run concurrently with the main thread; the      *)
(* SIGINT handler runs in the main thread between two of its steps.        *)
(***************************************************************************)
EXTENDS Naturals, Sequences, FiniteSets

VARIABLES
    cfg,        \* the inputs of the run: scenario, worker class, bodies (constant)
    stop,       \* the stop event (threading.Event): TRUE when set
    errors,     \* the errors queue (queue.Queue): FIFO sequence of records
    pc,         \* position of the main thread
    exc,        \* exception propagating in the main thread (NoExc: none)
    reason,     \* the record run_safe retrieved from the errors queue
    blocked,    \* how the body of the with block of run_safe ended
    ust,        \* per unit: position of the unit's thread
    finished,   \* per unit: Timer.finished event
    ran,        \* per unit: the body function has been called
    escaped,    \* per unit: an exception left run() / the wrapped method
    handler,    \* SIGINT handler: "none" not installed, "idle", "put" running
    nint,       \* number of SIGINT delivered
    calls,      \* what the worker's __exit__ did, in order
    bound,      \* the stop event and the errors queue each object holds: the
                \* Runner (or the test fixture), the worker, the units
    mains,      \* the foreground blockers run_safe invoked, in order
    log,        \* what the runner program printed, and the interrupts
    reads,      \* number of times run_safe read the errors queue
    ref,        \* the unit worker.thread / worker.timer refers to
    http        \* the HTTP client: token, requests sent, result of the last call

vars == <<cfg, stop, errors, pc, exc, reason, blocked, ust, finished, ran,
          escaped, handler, nint, calls, bound, mains, log, reads, ref, http>>

\* ---------------------------------------------------------------- bounds

MaxUnits == 2
MaxInterrupts == 1

Units == 1..MaxUnits
\* worker.thread / worker.timer; the other units are created with
\* create_thread by the worker's own code
Owned == 1

\* ------------------------------------------------------------ exceptions

NoExc == [cls |-> "none", oid |-> 0, tb |-> "none"]

\* an exception object raised at a site: its class, its identity and the
\* traceback Python attaches when it is raised
Raise(cls, oid, site) == [cls |-> cls, oid |-> oid, tb |-> site]

\* the None that on_sigint puts on the queue
NoneRec == [type |-> "NoneType", error |-> NoExc, traceback |-> "none"]

\* ExcInfo giving None in place of the triple
ExcInfo_None(e) == NoneRec

\* sys.exc_info() inside the except clause
ExcInfo(e) == [type |-> e.cls, error |-> e, traceback |-> e.tb]

NoReason == [type |-> "unset", error |-> NoExc, traceback |-> "none"]

\* error.with_traceback(traceback)
WithTraceback(e, tb) == [e EXCEPT !.tb = tb]

\* classes derived from Exception, and the others (BaseException only)
\* "forever": a body that never looks at the stop event and never returns
Bodies == {"return", "raise_exc", "raise_base", "wait_stop", "set_stop",
           "forever"}
ErrCls(b) == IF b = "raise_base" THEN "SystemExit" ELSE "MyError"

\* the dummy function of the placeholder unit a WorkerSafeThread or a
\* WorkerSafeTimer creates for itself
Placeholder == "redefine_me"

\* UnredefinedError with the two classes exchanged
UnredefinedError_Swapped(kind) ==
    IF kind = "timer" THEN "UnredefinedThreadError" ELSE "UnredefinedTimerError"

\* raise UnredefinedThreadError(...) / raise UnredefinedTimerError(...)
UnredefinedError(kind) ==
    IF kind = "timer" THEN "UnredefinedTimerError" ELSE "UnredefinedThreadError"

Raises(b) == b \in {"raise_exc", "raise_base", Placeholder}


\* ------------------------------------------------------------ the inputs

Flavors == {"BaseWorker", "Worker", "WorkerSafeThread", "WorkerSafeTimer"}

\* the workers that own a unit and close it in their __exit__
Owners == {"WorkerSafeThread", "WorkerSafeTimer"}

\* the classes a @safe method may belong to, and any other class
Hosts == {"BaseSafeThread", "BaseWorker", "Other"}

\* the bodies of the units: any body for the owned unit; the other units
\* exist only inside a worker and either return or fail
BodiesOf(sc) ==
    {b \in [Units -> Bodies \cup {Placeholder}] :
        \A u \in Units \ {Owned} :
            b[u] \in (IF sc = "unit" THEN {"return"} ELSE {"return", "raise_exc"})}

\* a unit (or the object of a @safe method) built by the caller with a stop
\* and an errors argument of the right type or not; an object of another
\* class takes no argument
UnitCfgs ==
    {c \in [scenario : {"unit"}, flavor : {"none"},
            kind : {"thread", "timer", "method"}, body : BodiesOf("unit"),
            host : Hosts, stopIsEvent : BOOLEAN, errorsIsQueue : BOOLEAN,
            argRunMain : {FALSE}, workerRunMain : {FALSE},
            platform : {"Linux"},
            stop0 : BOOLEAN, errors0 : {<<>>, <<NoneRec>>}] :
        /\ c.body[Owned] # Placeholder
        /\ c.kind # "method" => c.host = "BaseSafeThread"
        /\ c.host = "Other" => (c.stopIsEvent /\ c.errorsIsQueue)}

ScopeCfgs ==
    {c \in [scenario : {"scope"}, flavor : Flavors,
            kind : {"thread", "timer"}, body : BodiesOf("scope"),
            host : {"BaseWorker"}, stopIsEvent : BOOLEAN, errorsIsQueue : BOOLEAN,
            argRunMain : {FALSE}, workerRunMain : {FALSE},
            platform : {"Linux"},
            stop0 : {FALSE}, errors0 : {<<>>}] :
        /\ c.kind = (IF c.flavor = "WorkerSafeTimer" THEN "timer" ELSE "thread")
        /\ c.body[Owned] = Placeholder => c.flavor \in Owners}

\* run_safe starts worker.thread: the worker is a WorkerSafeThread, or a
\* Worker whose init_worker creates self.thread (RunnerTestCase); the stop
\* event and the errors queue are those the Runner created; what
\* platform.system() returns matters to wait(stop) only
RunnerCfgs ==
    {c \in [scenario : {"runner"}, flavor : {"Worker", "WorkerSafeThread"},
            kind : {"thread"}, body : BodiesOf("runner"),
            host : {"BaseWorker"}, stopIsEvent : {TRUE}, errorsIsQueue : {TRUE},
            argRunMain : BOOLEAN, workerRunMain : BOOLEAN,
            platform : {"Linux", "Windows"},
            stop0 : {FALSE}, errors0 : {<<>>}] :
        /\ c.body[Owned] = Placeholder => c.flavor \in Owners
        /\ (c.argRunMain \/ c.workerRunMain) => c.platform = "Linux"}

\* the units a worker starts besides its own are threads, except the timers
\* a rescheduling timer function creates
Kind(u) ==
    IF u = Owned THEN cfg.kind
    ELSE IF cfg.body[u] = "reschedule" THEN "timer" ELSE "thread"

Alive(u) == ust[u] \notin {"created", "done"}

\* an object not constructed yet
Unbound == [stop |-> 0, errors |-> 0]

\* Runner.__init__: self.stop = Event(); self.errors = Queue()
\* (the first event and the first queue of the program)
Created == [stop |-> 1, errors |-> 1]

\* worker.thread / worker.timer refers to the unit the worker created for
\* itself (or the one the with block put there before starting it); no
\* join() has been called on it
\* (built: the statements its constructor ran; target: the function of the
\* unit, "none" before there is one)
OwnRef == [timer |-> Owned, joined |-> 0, built |-> <<>>, target |-> "none"]

\* ConstructionOf calling init_worker before the placeholder is created
ConstructionOf_InitFirst(fl) ==
    <<"bind">>
    \o (IF fl # "BaseWorker" THEN <<"init_worker">> ELSE <<>>)
    \o (IF fl \in Owners THEN <<"placeholder">> ELSE <<>>)

\* the statements of the constructors, in their order: BaseWorker.__init__
\* binds stop and errors; WorkerSafeThread / WorkerSafeTimer then create
\* the placeholder unit; Worker and they then call init_worker, once
ConstructionOf(fl) ==
    <<"bind">>
    \o (IF fl \in Owners THEN <<"placeholder">> ELSE <<>>)
    \o (IF fl # "BaseWorker" THEN <<"init_worker">> ELSE <<>>)

\* what init_worker assigns to self.thread: the worker's own unit when the
\* worker is made for run_safe (WorkerNormal, WorkerError, MyWorker),
\* nothing ("keep") for the default stub
InitAssigns ==
    IF cfg.scenario = "runner" /\ cfg.body[Owned] # Placeholder
       THEN cfg.body[Owned] ELSE "keep"

\* the function of self.thread after the statements st ran, from t
RECURSIVE TargetAfter(_, _)
TargetAfter(st, t) ==
    IF st = <<>> THEN t
    ELSE TargetAfter(Tail(st),
            CASE Head(st) = "placeholder" -> Placeholder
              [] Head(st) = "init_worker" ->
                    (IF InitAssigns = "keep" THEN t ELSE InitAssigns)
              [] OTHER -> t)

\* the function a unit runs: for the worker's own unit, the one self.thread
\* was given last
BodyOf(u) ==
    IF u = Owned /\ cfg.scenario # "unit" THEN ref.target ELSE cfg.body[u]

BodyExc(u) ==
    Raise(IF BodyOf(u) = Placeholder THEN UnredefinedError(Kind(u))
                                       ELSE ErrCls(BodyOf(u)), u, "body")

\* the result of a call: what it returned, or the class of what it raised
Return(v) == [kind |-> "return", value |-> v]
Raised(cls) == [kind |-> "raise", value |-> cls]

\* HTTPClient(config, mute_raise=m) with config.get("token") = t: nothing
\* was sent, no operation was called
Client(t, m) ==
    [token |-> t, mute |-> m, sent |-> <<>>, op |-> "new",
     answer |-> "none", onError |-> "none", last |-> Return("None")]

\* no HTTPClient has been constructed
NoClient == Client("None", FALSE)

Init ==
    /\ cfg \in UnitCfgs \cup ScopeCfgs \cup RunnerCfgs
    /\ stop = cfg.stop0
    /\ errors = cfg.errors0
    /\ pc = (CASE cfg.scenario = "unit" -> "t_new"
               [] cfg.scenario = "scope" -> "w_init"
               [] OTHER -> "r_signal")
    /\ exc = NoExc
    /\ reason = NoReason
    /\ blocked = "none"
    /\ ust = [u \in Units |-> "created"]
    /\ finished = [u \in Units |-> FALSE]
    /\ ran = [u \in Units |-> FALSE]
    /\ escaped = [u \in Units |-> FALSE]
    /\ handler = "none"
    /\ nint = 0
    /\ calls = <<>>
    /\ bound = [runner |-> Created, worker |-> Unbound,
                unit |-> [u \in Units |-> Unbound]]
    /\ mains = <<>>
    /\ log = <<>>
    /\ reads = 0
    /\ ref = OwnRef
    /\ http = NoClient

\* ------------------------------------------------------------- the units

\* Thread.start(): returns once the new thread runs; a timer first waits
\* for its delay, a thread (or a called method) enters its body at once
Start(u) ==
    /\ ust[u] = "created"
    /\ ust' = [ust EXCEPT ![u] = IF Kind(u) = "timer" THEN "waiting" ELSE "running"]
    /\ ran' = [ran EXCEPT ![u] = Kind(u) # "timer"]
    /\ UNCHANGED <<finished, escaped>>

\* Timer.run: self.finished.wait(self.interval) returns, the delay having
\* elapsed or the timer having been cancelled
TimerWaitReturn(u) ==
    /\ ust[u] = "waiting"
    /\ ust' = [ust EXCEPT ![u] = "check"]
    /\ UNCHANGED <<cfg, stop, errors, pc, exc, reason, blocked, finished, ran,
                   escaped, handler, nint, calls, bound, mains, log,
                   reads, ref, http>>

\* Timer.run: if not self.finished.is_set(): self.function(...)
\* a cancelled timer skips its body, sets finished and ends
TimerCheck(u) ==
    /\ ust[u] = "check"
    /\ IF finished[u]
          THEN /\ ust' = [ust EXCEPT ![u] = "done"]
               /\ ran' = ran
          ELSE /\ ust' = [ust EXCEPT ![u] = "running"]
               /\ ran' = [ran EXCEPT ![u] = TRUE]
    /\ UNCHANGED <<cfg, stop, errors, pc, exc, reason, blocked, finished,
                   escaped, handler, nint, calls, bound, mains, log,
                   reads, ref, http>>

\* SafeReturn with the notification in a finally clause: the stop event is
\* set on a normal return too
SafeReturn_Finally(u) ==
    /\ ust' = [ust EXCEPT ![u] = "done"]
    /\ finished' = [finished EXCEPT ![u] = finished[u] \/ Kind(u) = "timer"]
    /\ stop' = TRUE
    /\ UNCHANGED <<errors, escaped>>

\* safe.call, the try branch: return fun(self, ...); nothing else is done.
\* Timer.run sets finished after its function returned.
SafeReturn(u) ==
    /\ ust' = [ust EXCEPT ![u] = "done"]
    /\ finished' = [finished EXCEPT ![u] = finished[u] \/ Kind(u) = "timer"]
    /\ UNCHANGED <<stop, errors, escaped>>

\* a body that returns (function_safe, function_already_dead,
\* function_to_join), at once or after some time
BodyReturn(u) ==
    /\ \/ ust[u] = "running" /\ BodyOf(u) = "return"
       \/ ust[u] \in {"stopset", "started"}
    /\ SafeReturn(u)
    /\ UNCHANGED <<cfg, pc, exc, reason, blocked, ran, handler, nint, calls,
                   bound, mains, log, reads, ref, http>>

\* EventWait returning at once
EventWait_NoBlock == TRUE

\* stop.wait(): returns once the stop event is set
EventWait == stop

\* the body of MyWorker prints when it starts and when it ends
\* (print("starting worker"), print("ending worker")); the log is kept for
\* the worker run by a Runner
Announces(u) ==
    cfg.scenario = "runner" /\ u = Owned /\ BodyOf(u) = "wait_stop"

\* a body that blocks on the stop event and then returns (MyWorker.run_thread)
BodyWaitStop(u) ==
    /\ ust[u] = "running" /\ BodyOf(u) = "wait_stop"
    /\ EventWait
    /\ SafeReturn(u)
    /\ log' = IF Announces(u) THEN Append(log, "ending worker") ELSE log
    /\ UNCHANGED <<cfg, pc, exc, reason, blocked, ran, handler, nint, calls,
                   bound, mains, reads, ref, http>>

\* a body that sets the stop event itself (worker.stop.set()) and returns
BodySetStop(u) ==
    /\ ust[u] = "running" /\ BodyOf(u) = "set_stop"
    /\ stop' = TRUE
    /\ ust' = [ust EXCEPT ![u] = "stopset"]
    /\ UNCHANGED <<cfg, errors, pc, exc, reason, blocked, finished, ran,
                   escaped, handler, nint, calls, bound, mains, log,
                   reads, ref, http>>

\* function_to_cancel, first statement:
\*     self.timer = Timer(1, self.function_to_cancel)
\* worker.timer refers to a new timer, not started yet, with the same function
BodyAssign(u) ==
    /\ ust[u] = "running" /\ BodyOf(u) = "reschedule"
    /\ u < MaxUnits
    /\ ref' = [ref EXCEPT !.timer = u + 1]
    /\ ust' = [ust EXCEPT ![u] = "assigned"]
    /\ UNCHANGED <<cfg, stop, errors, pc, exc, reason, blocked, finished, ran,
                   escaped, handler, nint, calls, bound, mains, log,
                   reads, http>>

\* function_to_cancel, second statement: self.timer.start(), on whatever
\* self.timer refers to (the timer just created: only the function assigns
\* it once the with block has started the first one)
BodyStartNext(u) ==
    /\ ust[u] = "assigned"
    /\ ust[u + 1] = "created"
    /\ ust' = [ust EXCEPT ![u + 1] = "waiting", ![u] = "started"]
    /\ UNCHANGED <<cfg, stop, errors, pc, exc, reason, blocked, finished, ran,
                   escaped, handler, nint, calls, bound, mains, log,
                   reads, ref, http>>

\* the delay of a timer elapses, or the timer is cancelled; the delay of the
\* last timer the bound allows does not elapse
TimerDelay(u) ==
    /\ u < MaxUnits \/ finished[u]
    /\ TimerWaitReturn(u)

\* a body that raises (function_error): control enters the except clause
BodyRaise(u) ==
    /\ ust[u] = "running" /\ Raises(BodyOf(u))
    /\ ust' = [ust EXCEPT ![u] = "caught"]
    /\ UNCHANGED <<cfg, stop, errors, pc, exc, reason, blocked, finished, ran,
                   escaped, handler, nint, calls, bound, mains, log,
                   reads, ref, http>>

\* SafeNotify that enqueues the record and leaves the stop event alone
SafeNotify_PutOnly(u) ==
    \/ /\ ust[u] = "caught"
       /\ errors' = Append(errors, ExcInfo(BodyExc(u)))
       /\ ust' = [ust EXCEPT ![u] = "put"]
       /\ UNCHANGED <<stop, escaped>>
    \/ /\ ust[u] = "put"
       /\ ust' = [ust EXCEPT ![u] = "done"]
       /\ UNCHANGED <<stop, errors, escaped>>

\* SafeExcept catching Exception only: a SystemExit leaves the unit
SafeExcept_ExceptionOnly(u) ==
    \/ /\ ust[u] = "caught" /\ ErrCls(BodyOf(u)) = "SystemExit"
       /\ ust' = [ust EXCEPT ![u] = "done"]
       /\ escaped' = [escaped EXCEPT ![u] = TRUE]
       /\ UNCHANGED <<stop, errors>>
    \/ /\ ust[u] = "caught" /\ ErrCls(BodyOf(u)) # "SystemExit"
       /\ errors' = Append(errors, ExcInfo(BodyExc(u)))
       /\ ust' = [ust EXCEPT ![u] = "put"]
       /\ UNCHANGED <<stop, escaped>>
    \/ /\ ust[u] = "put"
       /\ stop' = TRUE
       /\ ust' = [ust EXCEPT ![u] = "done"]
       /\ UNCHANGED <<errors, escaped>>

\* SafeExcept with its two statements swapped: stop.set() before the put
SafeExcept_SetFirst(u) ==
    \/ /\ ust[u] = "caught"
       /\ stop' = TRUE
       /\ ust' = [ust EXCEPT ![u] = "put"]
       /\ UNCHANGED <<errors, escaped>>
    \/ /\ ust[u] = "put"
       /\ errors' = Append(errors, ExcInfo(BodyExc(u)))
       /\ ust' = [ust EXCEPT ![u] = "done"]
       /\ UNCHANGED <<stop, escaped>>

\* safe.call, the except clause: except BaseException:
\*     self.errors.put_nowait(sys.exc_info())   then
\*     self.stop.set()                          then the call returns None
SafeExcept(u) ==
    \/ /\ ust[u] = "caught"
       /\ errors' = Append(errors, ExcInfo(BodyExc(u)))
       /\ ust' = [ust EXCEPT ![u] = "put"]
       /\ UNCHANGED <<stop, escaped>>
    \/ /\ ust[u] = "put"
       /\ stop' = TRUE
       /\ ust' = [ust EXCEPT ![u] = "done"]
       /\ UNCHANGED <<errors, escaped>>

\* what the wrapper does about a failure: its except clause
SafeNotify(u) == SafeExcept(u)

SafeCatch(u) ==
    /\ SafeNotify(u)
    /\ UNCHANGED <<cfg, pc, exc, reason, blocked, finished, ran, handler,
                   nint, calls, bound, mains, log, reads, ref, http>>

UnitStep(u) ==
    \/ TimerWaitReturn(u)
    \/ TimerCheck(u)
    \/ BodyReturn(u)
    \/ BodyWaitStop(u)
    \/ BodySetStop(u)
    \/ BodyRaise(u)
    \/ SafeCatch(u)


\* ------------------------------------------- the main thread: unit tests

\* the main thread runs its program, except while it runs the SIGINT
\* handler (Python runs the handler in the main thread, between two of its
\* instructions)
MainFree == handler # "put"

AssertionError(site) == Raise("AssertionError", 0, site)

\* CheckArgs without its assertions
CheckArgs_None(c) == NoExc

\* BaseSafeThread.__init__ and BaseWorker.__init__:
\*     assert isinstance(stop, Event), "Stop ... must be of type Event"
\*     assert isinstance(errors, Queue), "Errors ... must be of type Queue"
CheckArgs(c) ==
    IF ~c.stopIsEvent THEN AssertionError("stop")
    ELSE IF ~c.errorsIsQueue THEN AssertionError("errors")
    ELSE NoExc

\* SafeTarget accepting any object
SafeTarget_Any(h) == TRUE

\* safe.call: assert isinstance(self, (BaseSafeThread, BaseWorker))
SafeTarget(h) == h \in {"BaseSafeThread", "BaseWorker"}

\* SafeThread(stop, errors, ...), SafeTimer(stop, errors, ...), or the
\* construction of the object whose @safe method is called: the object
\* keeps the stop and errors it was given, unless an assertion fails
TestNew ==
    /\ pc = "t_new"
    /\ MainFree
    /\ LET e == IF cfg.host = "Other" THEN NoExc ELSE CheckArgs(cfg) IN
          /\ exc' = e
          /\ pc' = IF e = NoExc THEN "t_start" ELSE "done"
          /\ bound' = IF e = NoExc /\ cfg.host # "Other"
                         THEN [bound EXCEPT !.unit[Owned] = bound.runner]
                         ELSE bound
    /\ UNCHANGED <<cfg, stop, errors, reason, blocked, ust, finished, ran,
                   escaped, handler, nint, calls, mains, log,
                   reads, ref, http>>

\* controlled_thread.start(), or the call of a @safe method: the wrapper
\* first checks the class of self and raises to the caller if it is wrong
TestStart ==
    /\ pc = "t_start"
    /\ MainFree
    /\ IF SafeTarget(cfg.host)
          THEN /\ Start(Owned)
               /\ pc' = "t_join"
               /\ exc' = exc
          ELSE /\ exc' = AssertionError("safe")
               /\ pc' = "done"
               /\ UNCHANGED <<ust, finished, ran, escaped>>
    /\ UNCHANGED <<cfg, stop, errors, reason, blocked, handler, nint, calls,
                   bound, mains, log, reads, ref, http>>

\* controlled_thread.join(), or the return of the @safe method to its
\* caller: an exception that left a called method reaches the caller
TestJoin ==
    /\ pc = "t_join"
    /\ MainFree
    /\ ~Alive(Owned)
    /\ pc' = "done"
    /\ exc' = IF Kind(Owned) = "method" /\ escaped[Owned] THEN BodyExc(Owned) ELSE exc
    /\ UNCHANGED <<cfg, stop, errors, reason, blocked, ust, finished, ran,
                   escaped, handler, nint, calls, bound, mains, log,
                   reads, ref, http>>

\* ------------------------------------------ the main thread: the workers

HookError == Raise("HookError", 0, "hook")
MainError == Raise("MyError", 0, "main")
KeyboardInterrupt == Raise("KeyboardInterrupt", 0, "wait")
EmptyErrorsQueueError == Raise("EmptyErrorsQueueError", 0, "run_safe")

ExitPcs == {"x_set", "x_alive", "x_hook", "x_cancel", "x_join"}
BodyPcs == {"b_start", "b_join", "b_end", "r_start", "r_block", "r_poll"}

\* create_thread handing the unit an event and a queue of its own
create_thread_Fresh(w) == [stop |-> 2, errors |-> 2]

\* BaseWorker.create_thread / create_timer:
\*     return SafeThread(self.stop, self.errors, *args, **kwargs)
\* the unit holds the stop event and the errors queue of the worker w
create_thread(w) == [stop |-> w.stop, errors |-> w.errors]

\* AfterExit with the queue read whatever propagates (as in a finally)
AfterExit_ReadAnyway(e) == IF cfg.scenario = "runner" THEN "r_get" ELSE "done"

\* where the main thread goes when __exit__ is over and e propagates:
\* run_safe reads the queue only if nothing propagates out of the with block
AfterExit(e) == IF cfg.scenario = "runner" /\ e = NoExc THEN "r_get" ELSE "done"

\* W(stop, errors): BaseWorker.__init__ binds stop and errors, the
\* specialized workers create their placeholder unit, init_worker runs
WorkerInit ==
    /\ pc = "w_init"
    /\ MainFree
    /\ LET e == CheckArgs(cfg) IN
          /\ exc' = e
          /\ pc' = IF e = NoExc THEN "w_enter" ELSE "done"
          /\ bound' = IF e = NoExc
                         THEN [bound EXCEPT !.worker = bound.runner,
                                            !.unit[Owned] = create_thread(bound.runner)]
                         ELSE bound
          /\ ref' = IF e = NoExc
                       THEN [ref EXCEPT
                               !.built = ConstructionOf(cfg.flavor),
                               !.target = TargetAfter(ConstructionOf(cfg.flavor),
                                                      ref.target)]
                       ELSE ref
    /\ UNCHANGED <<cfg, stop, errors, reason, blocked, ust, finished, ran,
                   escaped, handler, nint, calls, mains, log,
                   reads, http>>

\* HookFailure as if the hooks were wrapped by @safe: the failure is put on
\* the queue
HookFailure_Captured(q) == Append(q, ExcInfo(HookError))

\* what a hook that raises does to the errors queue: nothing, enter_worker
\* and exit_worker are called bare, outside any safe wrapper
HookFailure(q) == q

\* BaseWorker.__enter__: self.enter_worker(); return self.
\* A hook that raises ends the with statement before its body: __exit__ is
\* not called.
WorkerEnter ==
    /\ pc = "w_enter"
    /\ MainFree
    /\ \/ /\ pc' = IF cfg.scenario = "runner" THEN "r_start" ELSE "b_start"
          /\ exc' = exc
          /\ errors' = errors
       \/ /\ pc' = "done"
          /\ exc' = HookError
          /\ errors' = HookFailure(errors)
    /\ UNCHANGED <<cfg, stop, reason, blocked, ust, finished, ran,
                   escaped, handler, nint, calls, bound, mains, log,
                   reads, ref, http>>

\* the body of the with block in the tests:
\* worker.thread = worker.create_thread(target=...) (the placeholder is kept
\* in test_unredifined_thread), then worker.thread.start() (or not)
ScopeStart ==
    /\ pc = "b_start"
    /\ MainFree
    /\ ref' = [ref EXCEPT !.target = IF cfg.body[Owned] = Placeholder
                                         THEN @ ELSE cfg.body[Owned]]
    /\ \/ Start(Owned)
       \/ UNCHANGED <<ust, finished, ran, escaped>>
    /\ pc' = "b_join"
    /\ UNCHANGED <<cfg, stop, errors, exc, reason, blocked, handler, nint, calls,
                   bound, mains, log, reads, http>>

\* ... then worker.thread.join(), or sleep(0.5), or nothing: the body goes
\* on at any time, with the unit in whatever state it reached by then
ScopeJoin ==
    /\ pc = "b_join"
    /\ MainFree
    /\ pc' = "b_end"
    /\ UNCHANGED <<cfg, stop, errors, exc, reason, blocked, ust, finished, ran,
                   escaped, handler, nint, calls, bound, mains, log,
                   reads, ref, http>>

\* ... then the body ends, normally (function_safe) or by raising
\* (function_error)
ScopeEnd ==
    /\ pc = "b_end"
    /\ MainFree
    /\ exc' \in {NoExc, MainError}
    /\ pc' = "x_set"
    /\ UNCHANGED <<cfg, stop, errors, reason, blocked, ust, finished, ran,
                   escaped, handler, nint, calls, bound, mains, log,
                   reads, ref, http>>

\* a unit the worker creates with create_thread and starts while its scope
\* is open
StartExtra(u) ==
    /\ u # Owned
    /\ cfg.scenario # "unit"
    /\ pc \in BodyPcs
    /\ MainFree
    /\ Start(u)
    /\ bound' = [bound EXCEPT !.unit[u] = create_thread(bound.worker)]
    /\ UNCHANGED <<cfg, stop, errors, pc, exc, reason, blocked, handler, nint,
                   calls, mains, log, reads, ref, http>>


\* -------------------------------------------------- the worker's __exit__

RuntimeError == Raise("RuntimeError", 0, "join")

\* ExitNotify that clears the event
ExitNotify_Clear == stop' = FALSE

\* ExitNotify forgotten
ExitNotify_Skip == stop' = stop

\* BaseWorker.__exit__: self.stop.set()
ExitNotify == stop' = TRUE

\* ExitEarly with the test inverted
ExitEarly_Inverted(u) == Alive(u)

\* ExitEarly without the liveness check
ExitEarly_Never(u) == FALSE

\* WorkerSafeThread/WorkerSafeTimer.__exit__:
\* if not self.thread.is_alive(): return
ExitEarly(u) == ~Alive(u)

\* Cancel forgotten
Cancel_Skip(u) == finished' = finished

\* WorkerSafeTimer.__exit__: self.timer.cancel(), that is finished.set()
Cancel(u) == finished' = [finished EXCEPT ![u] = TRUE]

\* JoinReturns without waiting (join(timeout=0))
JoinReturns_NoWait(u) == TRUE

\* WorkerSafeThread/WorkerSafeTimer.__exit__: self.thread.join() returns
\* when the thread has terminated
JoinReturns(u) == ~Alive(u)

\* every __exit__ starts with BaseWorker.__exit__ (super().__exit__());
\* BaseWorker's own __exit__ ends there and returns None
BaseWorkerExit ==
    /\ pc = "x_set"
    /\ MainFree
    /\ ExitNotify
    /\ IF cfg.flavor = "BaseWorker"
          THEN /\ calls' = calls \o <<"set", "ret">>
               /\ pc' = AfterExit(exc)
          ELSE /\ calls' = Append(calls, "set")
               /\ pc' = IF cfg.flavor = "Worker" THEN "x_hook" ELSE "x_alive"
    /\ UNCHANGED <<cfg, errors, exc, reason, blocked, ust, finished, ran,
                   escaped, handler, nint, bound, mains, log,
                   reads, ref, http>>

\* AfterAlive going straight to the join, the hook left for later
AfterAlive_JoinFirst == "x_join"

\* what follows the liveness check in __exit__: the custom exit,
\* self.exit_worker(*args, **kwargs), before the cancel and the join
AfterAlive == "x_hook"

\* WorkerSafeThread/WorkerSafeTimer.__exit__: exit now if the unit is not
\* running; self.thread / self.timer is read anew at each use
ExitIsAlive ==
    /\ pc = "x_alive"
    /\ MainFree
    /\ IF ExitEarly(ref.timer)
          THEN /\ calls' = calls \o <<"dead", "ret">>
               /\ pc' = AfterExit(exc)
          ELSE /\ calls' = Append(calls, "alive")
               /\ pc' = AfterAlive
    /\ UNCHANGED <<cfg, stop, errors, exc, reason, blocked, ust, finished, ran,
                   escaped, handler, nint, bound, mains, log,
                   reads, ref, http>>

\* HookRaised with the hook in a try ... finally: the owned unit is still
\* cancelled and joined
HookRaised_Finally ==
    CASE cfg.flavor = "WorkerSafeTimer" -> "x_cancel"
      [] cfg.flavor = "WorkerSafeThread" -> "x_join"
      [] OTHER -> "done"

\* where the main thread goes when exit_worker raises: out of __exit__, the
\* statements after the call of the hook are not run
HookRaised == "done"

\* self.exit_worker(*args, **kwargs): the hook returns, or it raises and its
\* exception leaves __exit__ in place of the one that was propagating.
\* Worker.__exit__ returns after the hook.
ExitHook ==
    /\ pc = "x_hook"
    /\ MainFree
    /\ \/ /\ exc' = exc
          /\ errors' = errors
          /\ IF cfg.flavor = "Worker"
                THEN /\ calls' = calls \o <<"hook", "ret">>
                     /\ pc' = AfterExit(exc)
                ELSE /\ calls' = Append(calls, "hook")
                     /\ pc' = IF cfg.flavor = "WorkerSafeTimer"
                                 THEN "x_cancel" ELSE "x_join"
       \/ /\ exc' = HookError
          /\ errors' = HookFailure(errors)
          /\ calls' = calls \o <<"hook", "raise">>
          /\ pc' = HookRaised
    /\ UNCHANGED <<cfg, stop, reason, blocked, ust, finished, ran,
                   escaped, handler, nint, bound, mains, log,
                   reads, ref, http>>

\* WorkerSafeTimer.__exit__: cancel the timer, if the timer was waiting
ExitCancel ==
    /\ pc = "x_cancel"
    /\ MainFree
    /\ Cancel(ref.timer)
    /\ calls' = Append(calls, "cancel")
    /\ pc' = "x_join"
    /\ UNCHANGED <<cfg, stop, errors, exc, reason, blocked, ust, ran,
                   escaped, handler, nint, bound, mains, log,
                   reads, ref, http>>

\* the object self.timer.join() is called on: self.timer as it is when the
\* call is made
JoinTarget == IF ref.joined = 0 THEN ref.timer ELSE ref.joined

\* self.timer.join() is called: self.timer is read, the wait begins
ExitJoinCall ==
    /\ pc = "x_join"
    /\ MainFree
    /\ ref.joined = 0
    /\ ref' = [ref EXCEPT !.joined = ref.timer]
    /\ UNCHANGED <<cfg, stop, errors, pc, exc, reason, blocked, ust, finished,
                   ran, escaped, handler, nint, calls, bound, mains, log,
                   reads, http>>

\* wait for termination; Thread.join raises RuntimeError on a thread that
\* was never started
ExitJoin ==
    /\ pc = "x_join"
    /\ MainFree
    /\ JoinReturns(JoinTarget)
    /\ IF ust[JoinTarget] = "created"
          THEN /\ exc' = RuntimeError
               /\ calls' = calls \o <<"join", "raise">>
               /\ pc' = "done"
          ELSE /\ exc' = exc
               /\ calls' = calls \o <<"join", "ret">>
               /\ pc' = AfterExit(exc)
    /\ UNCHANGED <<cfg, stop, errors, reason, blocked, ust, finished, ran,
                   escaped, handler, nint, bound, mains, log,
                   reads, ref, http>>

\* ------------------------------------------------------- Runner.run_safe

\* InstallHandler forgotten
InstallHandler_None == "none"

\* signal.signal(signal.SIGINT, on_sigint): on_sigint is the handler from
\* now on
InstallHandler == "idle"

\* KeepsSignals with run_safe clearing the event and emptying the queue
KeepsSignals_Reset == stop' = FALSE /\ errors' = <<>>

\* run_safe uses self.stop and self.errors as Runner.__init__ created them
\* and as they are: it neither replaces nor clears them
KeepsSignals == stop' = stop /\ errors' = errors

\* MyRunner.run: print("starting runner"), then run_safe, which begins with
\* signal.signal(signal.SIGINT, on_sigint)
RunSafeSignal ==
    /\ pc = "r_signal"
    /\ MainFree
    /\ KeepsSignals
    /\ handler' = InstallHandler
    /\ pc' = "w_init"
    /\ log' = Append(log, "starting runner")
    /\ UNCHANGED <<cfg, exc, reason, blocked, ust, finished, ran,
                   escaped, nint, calls, bound, mains, reads, ref, http>>

\* HandlerPut forgotten: the handler only sets the stop event
HandlerPut_Nothing(q) == q

\* on_sigint: self.errors.put(None)
HandlerPut(q) == Append(q, NoneRec)

\* on_sigint, first line: self.errors.put(None)
OnSigint ==
    /\ handler = "idle"
    /\ nint < MaxInterrupts
    /\ errors' = HandlerPut(errors)
    /\ handler' = "put"
    /\ nint' = nint + 1
    /\ log' = Append(log, "interrupt")
    /\ UNCHANGED <<cfg, stop, pc, exc, reason, blocked, ust, finished, ran,
                   escaped, calls, bound, mains, reads, ref, http>>

\* HandlerSet forgotten: the handler only enqueues the sentinel
HandlerSet_Skip == stop' = stop

\* on_sigint: self.stop.set()
HandlerSet == stop' = TRUE

\* on_sigint, second line: self.stop.set()
OnSigintSet ==
    /\ handler = "put"
    /\ HandlerSet
    /\ handler' = "idle"
    /\ UNCHANGED <<cfg, errors, pc, exc, reason, blocked, ust, finished, ran,
                   escaped, nint, calls, bound, mains, log, reads, ref, http>>

\* worker.thread.start()
RunSafeStart ==
    /\ pc = "r_start"
    /\ MainFree
    /\ Start(Owned)
    /\ pc' = "r_block"
    /\ log' = IF Announces(Owned) THEN Append(log, "starting worker") ELSE log
    /\ UNCHANGED <<cfg, stop, errors, exc, reason, blocked, handler, nint, calls,
                   bound, mains, reads, ref, http>>

\* Blocker preferring the worker's run_main
Blocker_WorkerFirst ==
    IF cfg.workerRunMain THEN "worker.run_main"
    ELSE IF cfg.argRunMain THEN "run_main"
    ELSE "wait"

\* the foreground blocker: run_main if given, else worker.run_main if the
\* worker has one, else wait(self.stop)
Blocker ==
    IF cfg.argRunMain THEN "run_main"
    ELSE IF cfg.workerRunMain THEN "worker.run_main"
    ELSE "wait"

\* WaitReturns giving up when the worker's thread is over
WaitReturns_ThreadOver == stop \/ ~Alive(Owned)

\* wait(stop): stop.wait() returns once the stop event is set; on Windows
\* the call returns when the test of the loop
\* while not stop.is_set(): stop.wait(interval) finds the event set
\* (pc = "r_block": in stop.wait(), or at the test of the loop)
WaitReturns == EventWait

\* Thread.start() failing: RuntimeError("can't start new thread")
StartError == Raise("RuntimeError", 0, "start")

\* StartFailed leaving run_safe without the worker's __exit__
StartFailed_NoExit == "done"

\* an exception raised inside the with block leaves it through the
\* worker's __exit__
StartFailed == "x_set"

\* worker.thread.start() raises: no thread was started
RunSafeStartRaise ==
    /\ pc = "r_start"
    /\ MainFree
    /\ ust[Owned] = "created"
    /\ exc' = StartError
    /\ blocked' = "raise"
    /\ pc' = StartFailed
    /\ UNCHANGED <<cfg, stop, errors, reason, ust, finished, ran,
                   escaped, handler, nint, calls, bound, mains, log,
                   reads, ref, http>>

\* PollAgain returning from wait(stop) once the interval has elapsed
PollAgain_Return == "x_set"

\* after stop.wait(interval) the loop tests stop.is_set() again
PollAgain == "r_block"

\* on Windows: the test while not stop.is_set() finds the event unset and
\* stop.wait(interval) is called
WaitPoll ==
    /\ pc = "r_block"
    /\ MainFree
    /\ Blocker = "wait" /\ cfg.platform = "Windows"
    /\ ~stop
    /\ pc' = "r_poll"
    /\ UNCHANGED <<cfg, stop, errors, exc, reason, blocked, ust, finished, ran,
                   escaped, handler, nint, calls, bound, mains, log,
                   reads, ref, http>>

\* stop.wait(interval) returns: the interval has elapsed, or the event was
\* set meanwhile
WaitPollOver ==
    /\ pc = "r_poll"
    /\ MainFree
    /\ pc' = PollAgain
    /\ UNCHANGED <<cfg, stop, errors, exc, reason, blocked, ust, finished, ran,
                   escaped, handler, nint, calls, bound, mains, log,
                   reads, ref, http>>

\* the blocker returns: wait(stop) only once the stop event is set; a
\* run_main whenever its code decides to ("stop": the event was set,
\* "early": it was not)
RunSafeBlockReturn ==
    /\ pc = "r_block"
    /\ MainFree
    /\ Blocker = "wait" => WaitReturns
    /\ blocked' = IF stop THEN "stop" ELSE "early"
    /\ mains' = Append(mains, Blocker)
    /\ pc' = "x_set"
    /\ UNCHANGED <<cfg, stop, errors, exc, reason, ust, finished, ran,
                   escaped, handler, nint, calls, bound, log,
                   reads, ref, http>>

\* the blocker raises: a run_main that fails, or stop.wait() raising
\* KeyboardInterrupt (the test double of test_run_safe_interrupt)
RunSafeBlockRaise ==
    /\ pc = "r_block"
    /\ MainFree
    /\ exc' = IF Blocker = "wait" THEN KeyboardInterrupt ELSE MainError
    /\ blocked' = "raise"
    /\ mains' = Append(mains, Blocker)
    /\ pc' = "x_set"
    /\ UNCHANGED <<cfg, stop, errors, reason, ust, finished, ran,
                   escaped, handler, nint, calls, bound, log,
                   reads, ref, http>>

\* Outcome raising a new, generic error in place of the captured one
Outcome_Wrapped(r) ==
    IF r = NoneRec THEN NoExc ELSE Raise("RuntimeError", 0, "run_safe")

\* Outcome returning normally whatever the record
Outcome_Return(r) == NoExc

\* if reason is None: return
\* _, error, traceback = reason; error.with_traceback(traceback); raise error
Outcome(r) ==
    IF r = NoneRec THEN NoExc ELSE WithTraceback(r.error, r.traceback)

\* QueueFirst taking the record enqueued last
QueueFirst_Last(q) == q[Len(q)]

\* Queue.get: the record returned is the one enqueued first (FIFO)
QueueFirst(q) == Head(q)

\* QueueGet leaving the record on the queue
QueueGet_Peek(q) == q

\* Queue.get: the first record is removed from the queue
QueueGet(q) == Tail(q)

\* reason = self.errors.get(timeout=self.ERROR_TIMEOUT), a record being
\* there; after a normal return MyRunner.run prints "ending runner"
RunSafeGet ==
    /\ pc = "r_get"
    /\ MainFree
    /\ errors # <<>>
    /\ reason' = QueueFirst(errors)
    /\ errors' = QueueGet(errors)
    /\ exc' = Outcome(QueueFirst(errors))
    /\ pc' = "done"
    /\ log' = IF Outcome(QueueFirst(errors)) = NoExc
                 THEN Append(log, "ending runner") ELSE log
    /\ reads' = reads + 1
    /\ UNCHANGED <<cfg, stop, blocked, ust, finished, ran, escaped, handler,
                   nint, calls, bound, mains, ref, http>>

\* OnEmpty swallowing the Empty: run_safe returns normally
OnEmpty_Return == NoExc

\* except Empty as empty_error: raise EmptyErrorsQueueError(...)
OnEmpty == EmptyErrorsQueueError

\* the get times out on a queue that stayed empty for ERROR_TIMEOUT seconds
RunSafeGetTimeout ==
    /\ pc = "r_get"
    /\ MainFree
    /\ errors = <<>>
    /\ exc' = OnEmpty
    /\ pc' = "done"
    /\ reads' = reads + 1
    /\ UNCHANGED <<cfg, stop, errors, reason, blocked, ust, finished, ran,
                   escaped, handler, nint, calls, bound, mains, log,
                   ref, http>>

\* ---------------------------------------------------------- the program

Next ==
    \/ TestNew
    \/ TestStart
    \/ TestJoin
    \/ WorkerInit
    \/ WorkerEnter
    \/ ScopeStart
    \/ ScopeJoin
    \/ ScopeEnd
    \/ BaseWorkerExit
    \/ ExitIsAlive
    \/ ExitHook
    \/ ExitCancel
    \/ ExitJoin
    \/ RunSafeSignal
    \/ RunSafeStart
    \/ RunSafeStartRaise
    \/ WaitPoll
    \/ WaitPollOver
    \/ RunSafeBlockReturn
    \/ RunSafeBlockRaise
    \/ RunSafeGet
    \/ RunSafeGetTimeout
    \/ OnSigint
    \/ OnSigintSet
    \/ \E u \in Units : UnitStep(u)
    \/ \E u \in Units : StartExtra(u)

Spec == Init /\ [][Next]_vars

\* ------------------------------- the worker with a self-rescheduling timer

\* WorkerSafeTimerToTest(stop, errors) with
\* worker.timer = worker.create_timer(0, worker.function_to_cancel):
\* every timer of the chain runs function_to_cancel
TimerCfg ==
    [scenario |-> "scope", flavor |-> "WorkerSafeTimer", kind |-> "timer",
     body |-> [u \in Units |-> "reschedule"], host |-> "BaseWorker",
     stopIsEvent |-> TRUE, errorsIsQueue |-> TRUE,
     argRunMain |-> FALSE, workerRunMain |-> FALSE, platform |-> "Linux",
     stop0 |-> FALSE, errors0 |-> <<>>]

TimerInit ==
    /\ cfg = TimerCfg
    /\ stop = FALSE
    /\ errors = <<>>
    /\ pc = "w_init"
    /\ exc = NoExc
    /\ reason = NoReason
    /\ blocked = "none"
    /\ ust = [u \in Units |-> "created"]
    /\ finished = [u \in Units |-> FALSE]
    /\ ran = [u \in Units |-> FALSE]
    /\ escaped = [u \in Units |-> FALSE]
    /\ handler = "none"
    /\ nint = 0
    /\ calls = <<>>
    /\ bound = [runner |-> Created, worker |-> Unbound,
                unit |-> [u \in Units |-> Unbound]]
    /\ mains = <<>>
    /\ log = <<>>
    /\ reads = 0
    /\ ref = OwnRef
    /\ http = NoClient

TimerNext ==
    \/ WorkerInit
    \/ WorkerEnter
    \/ ScopeStart
    \/ ScopeJoin
    \/ ScopeEnd
    \/ BaseWorkerExit
    \/ ExitIsAlive
    \/ ExitHook
    \/ ExitCancel
    \/ ExitJoinCall
    \/ ExitJoin
    \/ \E u \in Units : TimerDelay(u)
    \/ \E u \in Units : TimerCheck(u)
    \/ \E u \in Units : BodyAssign(u)
    \/ \E u \in Units : BodyStartNext(u)
    \/ \E u \in Units : BodyReturn(u)

TimerSpec == TimerInit /\ [][TimerNext]_vars

\* ------------------------------------------------------- the HTTP client

\* the requests a client sends in one run
MaxSent == 2

\* the token of the configuration: absent (None), empty, or a value
ConfigTokens == {"None", "", "tok"}

\* the "token" entry of the JSON object a successful login answers with: a
\* value, or nothing (.get("token") is None), or an empty string
JsonTokens == {"new", "None", ""}

\* what the server does with a request: no answer (RequestException), a 2xx
\* response, or a response with another status
Answers == {"error", "ok", "invalid"}

Verbs == {"get", "post", "put", "patch", "delete"}

\* function_on_error: not given; the on_error of authenticate; a function of
\* the caller returning a ResponseError; one returning another exception
OnErrors == {"none", "custom", "other"}

\* the exception function_on_error(response) returns
OnErrorResult(fe) ==
    CASE fe = "auth" -> "AuthenticationError"
      [] fe = "custom" -> "CustomResponseError"
      [] OTHER -> "ValueError"

\* ResponseError and its subclasses
IsResponseError(e) ==
    e \in {"ResponseRequestError", "ResponseInvalidError",
           "AuthenticationError", "CustomResponseError"}

\* NotAuthenticated without its test: the decorated function always runs
NotAuthenticated_Never(t) == FALSE

\* authenticated.call: if self.token is None: raise NotAuthenticatedError
NotAuthenticated(t) == t = "None"

\* authenticate: if self.token: return (None and "" are both false)
Truthy(t) == t \notin {"None", ""}

\* get_token_header: {"Authorization": "Token " + self.token}
\* (the concatenation is a TypeError for a token that is None)
HeaderOf(t) ==
    CASE t = "" -> "Token "
      [] t = "tok" -> "Token tok"
      [] t = "new" -> "Token new"
      [] OTHER -> "TypeError"

\* send_request_raw, what it does once the request may be sent: the result
\* is the response, or the error it raises
RawOutcome(methodOk, fe, answer) ==
    IF ~methodOk THEN "MethodError"
    ELSE CASE answer = "error" -> "ResponseRequestError"
           [] answer = "ok" -> "response"
           [] OTHER -> IF fe = "none" THEN "ResponseInvalidError"
                                      ELSE OnErrorResult(fe)

\* Muted that silences nothing
Muted_Never(e, mute) == FALSE

\* send_request: except ResponseError: if self.mute_raise: return None
Muted(e, mute) == mute /\ IsResponseError(e)

\* send_request, under @authenticated: the header, the raw request, the
\* muting of its ResponseError
Request(c, op, method, methodOk, fe, answer) ==
    IF NotAuthenticated(c.token)
       THEN [c EXCEPT !.op = op, !.answer = "none", !.onError = "none",
                      !.last = Raised("NotAuthenticatedError")]
       ELSE LET r == RawOutcome(methodOk, fe, answer) IN
            [c EXCEPT
               !.op = op,
               !.answer = IF methodOk THEN answer ELSE "none",
               !.onError = fe,
               !.sent = IF methodOk
                           THEN Append(@, [method |-> method,
                                           header |-> HeaderOf(c.token)])
                           ELSE @,
               !.last = IF r = "response" THEN Return("response")
                        ELSE IF Muted(r, c.mute) THEN Return("None")
                        ELSE Raised(r)]

\* get_json_from_response: the parsed content of a response that has some,
\* None for no response or no content
get_json_from_response(res, text) ==
    IF res = Return("response") /\ text THEN Return("json")
    ELSE IF res.kind = "return" THEN Return("None")
    ELSE res

\* the variables of the workers, which the client does not touch
Workers ==
    <<cfg, stop, errors, pc, exc, reason, blocked, ust, finished, ran,
      escaped, handler, nint, calls, bound, mains, log, reads, ref>>

\* client.send_request(method, endpoint, function_on_error=...)
SendRequest ==
    /\ NotAuthenticated(http.token) \/ Len(http.sent) < MaxSent
    /\ \E methodOk \in BOOLEAN, fe \in OnErrors, answer \in Answers :
          http' = Request(http, "send_request",
                          IF methodOk THEN "get" ELSE "unsupported",
                          methodOk, fe, answer)
    /\ UNCHANGED Workers

\* client.get / post / put / patch / delete (endpoint, ...):
\*     return self.get_json_from_response(self.send_request("get", ...))
VerbRequest ==
    /\ NotAuthenticated(http.token) \/ Len(http.sent) < MaxSent
    /\ \E verb \in Verbs, answer \in Answers, text \in BOOLEAN :
          LET c == Request(http, verb, verb, TRUE, "none", answer) IN
          http' = [c EXCEPT !.last = get_json_from_response(c.last, text)]
    /\ UNCHANGED Workers

\* client.get_token_header()
GetTokenHeader ==
    /\ http' = [http EXCEPT
                   !.op = "get_token_header", !.answer = "none",
                   !.onError = "none",
                   !.last = IF NotAuthenticated(http.token)
                               THEN Raised("NotAuthenticatedError")
                               ELSE Return(HeaderOf(http.token))]
    /\ UNCHANGED Workers

\* client.authenticate(): nothing if a token is there; else the login
\* request through send_request_raw with on_error, and
\* self.token = response.json().get("token")
Authenticate ==
    /\ Truthy(http.token) \/ Len(http.sent) < MaxSent
    /\ IF Truthy(http.token)
          THEN http' = [http EXCEPT !.op = "authenticate", !.answer = "none",
                                    !.onError = "none",
                                    !.last = Return("None")]
          ELSE \E answer \in Answers, tok \in JsonTokens :
                 LET r == RawOutcome(TRUE, "auth", answer) IN
                 http' = [http EXCEPT
                            !.op = "authenticate",
                            !.answer = answer,
                            !.onError = "auth",
                            !.sent = Append(@, [method |-> "post",
                                                header |-> "none"]),
                            !.token = IF r = "response" THEN tok ELSE @,
                            !.last = IF r = "response" THEN Return("None")
                                                       ELSE Raised(r)]
    /\ UNCHANGED Workers

\* a client built from a configuration with or without a token, muted or
\* not; no worker runs
HttpInit ==
    /\ cfg = TimerCfg
    /\ stop = FALSE
    /\ errors = <<>>
    /\ pc = "w_init"
    /\ exc = NoExc
    /\ reason = NoReason
    /\ blocked = "none"
    /\ ust = [u \in Units |-> "created"]
    /\ finished = [u \in Units |-> FALSE]
    /\ ran = [u \in Units |-> FALSE]
    /\ escaped = [u \in Units |-> FALSE]
    /\ handler = "none"
    /\ nint = 0
    /\ calls = <<>>
    /\ bound = [runner |-> Created, worker |-> Unbound,
                unit |-> [u \in Units |-> Unbound]]
    /\ mains = <<>>
    /\ log = <<>>
    /\ reads = 0
    /\ ref = OwnRef
    /\ \E t \in ConfigTokens, m \in BOOLEAN : http = Client(t, m)

HttpNext ==
    \/ SendRequest
    \/ VerbRequest
    \/ GetTokenHeader
    \/ Authenticate

HttpSpec == HttpInit /\ [][HttpNext]_vars

\* ------------------------------------------- the program, scheduled fairly

\* the workers and run_safe, without the tests of a unit alone
FairInit == Init /\ cfg.scenario # "unit"

\* the steps the main thread takes by itself: every statement of the with
\* block's setup and of __exit__ runs when it can; the blocker returns once
\* the stop event is set (wait(stop), or a run_main that keeps its contract)
MainStep ==
    \/ WorkerInit
    \/ WorkerEnter
    \/ ScopeStart
    \/ ScopeJoin
    \/ ScopeEnd
    \/ BaseWorkerExit
    \/ ExitIsAlive
    \/ ExitHook
    \/ ExitCancel
    \/ ExitJoin
    \/ RunSafeSignal
    \/ RunSafeStart
    \/ WaitPoll
    \/ WaitPollOver
    \/ (stop /\ RunSafeBlockReturn)
    \/ RunSafeGet
    \/ RunSafeGetTimeout

FairNext ==
    \/ WorkerInit
    \/ WorkerEnter
    \/ ScopeStart
    \/ ScopeJoin
    \/ ScopeEnd
    \/ BaseWorkerExit
    \/ ExitIsAlive
    \/ ExitHook
    \/ ExitCancel
    \/ ExitJoin
    \/ RunSafeSignal
    \/ RunSafeStart
    \/ RunSafeStartRaise
    \/ WaitPoll
    \/ WaitPollOver
    \/ RunSafeBlockReturn
    \/ RunSafeBlockRaise
    \/ RunSafeGet
    \/ RunSafeGetTimeout
    \/ OnSigint
    \/ OnSigintSet
    \/ \E u \in Units : UnitStep(u)
    \/ \E u \in Units : StartExtra(u)

\* the threads of the process are all scheduled: a started unit and the main
\* thread each take their next step when it stays possible, and a handler
\* that began runs to its end. Nothing forces an interrupt, the start of
\* another unit, or a failure of the blocker.
FairSpec ==
    /\ FairInit
    /\ [][FairNext]_vars
    /\ WF_vars(MainStep)
    /\ WF_vars(OnSigintSet)
    /\ \A u \in Units : WF_vars(UnitStep(u))


\* --------------------------------------- run_safe called a second time

\* how many times run_safe may be called on the Runner
MaxRuns == 2

\* the calls of MyRunner.run so far (each prints "starting runner")
Runs == Cardinality({i \in DOMAIN log : log[i] = "starting runner"})

\* run_safe is over (it returned or raised) and the caller calls it again
\* on the same Runner, the threads of the previous call being over: the
\* call makes a new worker, with new threads; self.stop, self.errors and
\* the handler of SIGINT are those the previous call left
RunSafeAgain ==
    /\ cfg.scenario = "runner"
    /\ pc = "done"
    /\ MainFree
    /\ Runs < MaxRuns
    /\ \A u \in Units : ~Alive(u)
    /\ pc' = "r_signal"
    /\ exc' = NoExc
    /\ reason' = NoReason
    /\ blocked' = "none"
    /\ ust' = [u \in Units |-> "created"]
    /\ finished' = [u \in Units |-> FALSE]
    /\ ran' = [u \in Units |-> FALSE]
    /\ escaped' = [u \in Units |-> FALSE]
    /\ calls' = <<>>
    /\ mains' = <<>>
    /\ reads' = 0
    /\ ref' = OwnRef
    /\ bound' = [runner |-> bound.runner, worker |-> Unbound,
                 unit |-> [u \in Units |-> Unbound]]
    /\ UNCHANGED <<cfg, stop, errors, handler, nint, log, http>>

AgainInit == Init /\ cfg.scenario = "runner"

\* the steps of a thread (run_safe starts no timer)
ThreadStep(u) ==
    \/ BodyReturn(u)
    \/ BodyWaitStop(u)
    \/ BodySetStop(u)
    \/ BodyRaise(u)
    \/ SafeCatch(u)

AgainNext ==
    \/ WorkerInit
    \/ WorkerEnter
    \/ BaseWorkerExit
    \/ ExitIsAlive
    \/ ExitHook
    \/ ExitJoin
    \/ RunSafeSignal
    \/ RunSafeStart
    \/ RunSafeStartRaise
    \/ WaitPoll
    \/ WaitPollOver
    \/ RunSafeBlockReturn
    \/ RunSafeBlockRaise
    \/ RunSafeGet
    \/ RunSafeGetTimeout
    \/ RunSafeAgain
    \/ OnSigint
    \/ OnSigintSet
    \/ \E u \in Units : ThreadStep(u)
    \/ \E u \in Units : StartExtra(u)

AgainSpec == AgainInit /\ [][AgainNext]_vars

\* ------------------------------------------------------------ the claims

\* the record the safe wrapper builds for the failure of unit u
RecordOf(u) == ExcInfo(BodyExc(u))

\* how many records of the queue q carry the failure of unit u
Count(q, u) == Cardinality({i \in DOMAIN q : q[i] = RecordOf(u)})

\* the records carrying the failure of unit u that were enqueued so far:
\* those on the queue and the one run_safe may have retrieved
Carried(u) == Count(errors, u) + (IF reason = RecordOf(u) THEN 1 ELSE 0)

Did(op) == \E i \in DOMAIN calls : calls[i] = op

\* __exit__ returned (it did not raise)
Returned(c) == c # <<>> /\ c[Len(c)] = "ret"

\* the step in which the worker's __exit__ ends
ExitEnds == pc \in ExitPcs /\ pc' \notin ExitPcs

\* C1: a body that raises E, run through the safe wrapper (thread, timer or
\* @safe method), enqueues exactly one record carrying E and sets the stop
\* event once the unit has terminated; E never leaves the unit, and the
\* caller of a wrapped method gets no exception.
C1_SafeCaptures ==
    /\ \A u \in Units :
          /\ ~escaped[u]
          /\ Carried(u) <= 1
          /\ (Raises(cfg.body[u]) /\ ran[u] /\ ust[u] = "done")
                => (Carried(u) = 1 /\ stop)
    /\ (cfg.scenario = "unit" /\ pc = "done" /\ ust[Owned] # "created")
          => exc = NoExc

C1_Witness ==
    /\ cfg.scenario = "unit" /\ cfg.body[Owned] = "raise_base"
    /\ cfg.stop0 = FALSE
    /\ pc = "done" /\ ust[Owned] = "done"
    /\ Carried(Owned) = 1 /\ stop /\ exc = NoExc

\* C2: a body that completes without error, run as a SafeThread, a
\* SafeTimer or a @safe method, leaves the stop event and the errors queue
\* as they were before the start, in every state up to and after the join.
C2_SafeFrame ==
    (cfg.scenario = "unit" /\ cfg.body[Owned] \in {"return", "wait_stop"})
        => (stop = cfg.stop0 /\ errors = cfg.errors0)

C2_Witness ==
    /\ cfg.scenario = "unit" /\ cfg.body[Owned] = "return"
    /\ pc = "done" /\ ran[Owned] /\ ust[Owned] = "done"
    /\ ~stop /\ errors = <<NoneRec>>

\* C3 as stated: in no reachable state does the errors queue hold a failing
\* unit's record while the stop event is unset.
C3_SetBeforePut ==
    \A u \in Units : Count(errors, u) > 0 => stop

\* C3 as amended: the record is enqueued before the stop event is set.
\* Between the two statements of the except clause the record is already
\* enqueued, and when the wrapper is the only one to set the stop event
\* (a lone failing unit, stop initially unset), stop set implies the record
\* is on the queue.
C3_PutBeforeSet ==
    /\ \A u \in Units : ust[u] = "put" => Carried(u) = 1
    /\ (cfg.scenario = "unit" /\ ~cfg.stop0 /\ Raises(cfg.body[Owned]) /\ stop)
          => Count(errors, Owned) = 1

C3_Witness ==
    /\ cfg.scenario = "unit" /\ ~cfg.stop0
    /\ ust[Owned] = "put" /\ Count(errors, Owned) = 1 /\ ~stop


\* no unit other than the worker's own has enqueued a failure
OnlyOwnedFailed == \A u \in Units \ {Owned} : Carried(u) = 0

\* C4: run_safe with a worker whose owned thread body raises E, no interrupt
\* delivered (the blocker returning once the stop event is set, no hook
\* failing, no other unit failing), ends by raising exactly E, the object
\* the body raised with its traceback, after the worker's __exit__ returned.
C4_RunSafeReraises ==
    (/\ cfg.scenario = "runner" /\ pc = "done"
     /\ Raises(cfg.body[Owned]) /\ nint = 0
     /\ blocked = "stop" /\ exc # HookError /\ OnlyOwnedFailed)
        => (/\ exc = BodyExc(Owned)
            /\ reason = RecordOf(Owned)
            /\ Returned(calls))

C4_Witness ==
    /\ cfg.scenario = "runner" /\ pc = "done"
    /\ cfg.flavor = "WorkerSafeThread" /\ cfg.body[Owned] = "raise_exc"
    /\ nint = 0 /\ blocked = "stop" /\ Blocker = "wait"
    /\ exc = BodyExc(Owned) /\ Did("join") /\ Returned(calls)

\* the bodies of all units return without error and leave the stop event
\* alone
NoBodyErrs == \A u \in Units : cfg.body[u] \in {"return", "wait_stop"}

\* C5: run_safe with a worker whose body never errors, interrupted during
\* the wait (SIGINT handled by on_sigint, or KeyboardInterrupt raised by the
\* wait), returns normally and leaves the stop event set.
C5_InterruptReturns ==
    (/\ cfg.scenario = "runner" /\ pc = "done"
     /\ NoBodyErrs /\ exc # HookError
     /\ \/ blocked = "stop"
        \/ blocked = "raise" /\ Blocker = "wait")
        => (exc = NoExc /\ stop)

\* the part of C5 the code guarantees: the interrupt is the signal, handled
\* by on_sigint
C5_SigintReturns ==
    (/\ cfg.scenario = "runner" /\ pc = "done"
     /\ NoBodyErrs /\ exc # HookError
     /\ blocked = "stop")
        => (exc = NoExc /\ stop /\ reason = NoneRec /\ nint > 0)

\* C6: when the worker's scope has ended (its __exit__ returned, nothing
\* propagating) and the queue stays empty for the whole retrieval window,
\* run_safe raises EmptyErrorsQueueError: from the get on an empty queue the
\* main thread can only go to that raise, and a run_safe that ended without
\* having retrieved a record ended with that error.
C6_EmptyQueueRaises ==
    /\ (pc = "r_get" /\ errors = <<>> /\ MainFree) => ENABLED RunSafeGetTimeout
    /\ (/\ cfg.scenario = "runner" /\ pc = "done"
        /\ Returned(calls) /\ blocked # "raise" /\ reason = NoReason)
          => exc = EmptyErrorsQueueError

C6_Witness ==
    /\ cfg.scenario = "runner" /\ pc = "done"
    /\ exc = EmptyErrorsQueueError /\ errors = <<>> /\ nint = 0
    /\ \/ blocked = "early" /\ NoBodyErrs
       \/ blocked = "stop" /\ cfg.body[Owned] = "set_stop" /\ Blocker = "wait"


\* C7: the step that ends a worker's __exit__ (of any worker class) leaves
\* the stop event set, whether the with body ended normally or raised; an
\* exception raised by the body is still propagating afterwards: it is
\* never replaced by a normal completion, it is the very same exception
\* whenever __exit__ returned, and it is on the errors queue in no case.
C7_ExitSetsStopKeepsFailure ==
    [][ExitEnds =>
          /\ stop'
          /\ exc # NoExc => exc' # NoExc
          /\ (exc # NoExc /\ Returned(calls')) => exc' = exc
          /\ exc # NoExc => \A i \in DOMAIN errors' : errors'[i].error # exc
      ]_vars

C7_Witness ==
    /\ cfg.scenario = "scope" /\ pc = "done"
    /\ exc = MainError /\ Returned(calls)
    /\ stop /\ errors = <<>>

\* C8: in the __exit__ of a WorkerSafeThread or WorkerSafeTimer the main
\* thread stays at the join for as long as the owned unit is alive, and in
\* the state that follows the return of __exit__ the owned unit is not
\* alive.
C8_ExitJoinsOwnedUnit ==
    [][/\ (pc = "x_join" /\ Alive(Owned)) => pc' = "x_join"
       /\ (/\ ExitEnds /\ Returned(calls')
           /\ cfg.flavor \in {"WorkerSafeThread", "WorkerSafeTimer"})
             => ust'[Owned] \in {"created", "done"}
      ]_vars

C8_Witness ==
    /\ cfg.flavor = "WorkerSafeThread" /\ cfg.body[Owned] = "wait_stop"
    /\ pc \notin ExitPcs /\ Returned(calls)
    /\ Did("alive") /\ Did("join") /\ ust[Owned] = "done"

\* C9: when the owned unit was never started or has already finished, the
\* __exit__ of a WorkerSafeThread or WorkerSafeTimer returns at the liveness
\* check: that step is enabled (it does not block), it ends __exit__ without
\* raising, and neither exit_worker, cancel nor join is performed; the unit
\* is left as it was. (The stop event has been set before the check.)
C9_ExitOnDeadUnit ==
    /\ [](((pc = "x_alive" /\ ~Alive(Owned) /\ MainFree) => ENABLED ExitIsAlive))
    /\ [][(pc = "x_alive" /\ ~Alive(Owned) /\ pc' # pc) =>
             /\ pc' \notin ExitPcs
             /\ exc' = exc
             /\ calls' = <<"set", "dead", "ret">>
             /\ UNCHANGED <<ust, finished, ran, stop, errors>>
         ]_vars

C9_Witness ==
    /\ cfg.flavor \in {"WorkerSafeThread", "WorkerSafeTimer"}
    /\ pc = "done" /\ exc = NoExc
    /\ calls = <<"set", "dead", "ret">>
    /\ ust[Owned] = "created"

\* C10: in the __exit__ of a WorkerSafeTimer, the cancel of a timer whose
\* delay has not elapsed sets its finished event; a timer whose finished
\* event is set before its body was called never calls its body; and the
\* timer is not alive in the state that follows the return of __exit__.
C10_ExitCancelsWaitingTimer ==
    [][/\ (pc = "x_cancel" /\ pc' # pc /\ ust[Owned] = "waiting")
             => (finished'[Owned] /\ ~ran'[Owned])
       /\ (finished[Owned] /\ ~ran[Owned]) => ~ran'[Owned]
       /\ (cfg.flavor = "WorkerSafeTimer" /\ ExitEnds /\ Returned(calls'))
             => ust'[Owned] \in {"created", "done"}
      ]_vars

C10_Witness ==
    /\ cfg.flavor = "WorkerSafeTimer"
    /\ pc = "done" /\ Returned(calls) /\ Did("cancel") /\ Did("join")
    /\ ust[Owned] = "done" /\ ~ran[Owned] /\ finished[Owned]


\* the worker's __exit__ is over: it returned or it raised
ExitOver == calls # <<>> /\ calls[Len(calls)] \in {"ret", "raise"}

RunSafeEnds == pc = "r_get" /\ pc' = "done" /\ reason' # NoReason

\* C13 (as stated): in the state in which run_safe terminates, by returning
\* or by re-raising a failure, the errors queue is empty and the stop event
\* is set.
C13_EndsWithEmptyQueue ==
    [][RunSafeEnds => (errors' = <<>> /\ stop')]_vars

\* C13 (amended): when run_safe terminates, by returning or by re-raising a
\* failure, the stop event is set and exactly one record, the oldest, has
\* been removed from the errors queue: the queue is empty then if and only
\* if that record was alone (one failure and no interrupt, or one interrupt
\* and no failure); records of other failures and interrupts stay on it.
C13_EndsHavingTakenOne ==
    [][RunSafeEnds =>
          /\ stop'
          /\ errors = <<reason'>> \o errors'
          /\ (errors' = <<>>) <=> (Len(errors) = 1)
      ]_vars

C13_Witness ==
    /\ cfg.scenario = "runner" /\ pc = "done"
    /\ reason = RecordOf(Owned) /\ exc = BodyExc(Owned)
    /\ nint = 0 /\ errors = <<>> /\ stop

\* e1 was logged, and before e2 if e2 was logged
Before(e1, e2) ==
    \E i \in DOMAIN log :
        /\ log[i] = e1
        /\ \A j \in DOMAIN log : log[j] = e2 => i < j

\* C14: run_safe on the WorkerSafeThread whose body prints, waits on the
\* stop event and prints (MyWorker), blocking in wait(stop), one interrupt
\* being delivered after the body started (no hook and no other unit
\* failing): when run_safe is over it has returned normally and the log is
\* starting runner, starting worker, interrupt, ending worker, ending
\* runner.
C14_InterruptOrdering ==
    (/\ cfg.scenario = "runner" /\ cfg.flavor = "WorkerSafeThread"
     /\ cfg.body[Owned] = "wait_stop" /\ Blocker = "wait"
     /\ pc = "done" /\ blocked = "stop" /\ exc # HookError /\ OnlyOwnedFailed
     /\ nint = 1 /\ Before("starting worker", "interrupt"))
        => (/\ exc = NoExc
            /\ log = <<"starting runner", "starting worker", "interrupt",
                       "ending worker", "ending runner">>)

C14_Witness ==
    /\ cfg.scenario = "runner" /\ cfg.flavor = "WorkerSafeThread"
    /\ cfg.body[Owned] = "wait_stop" /\ Blocker = "wait"
    /\ pc = "done" /\ exc = NoExc /\ nint = 1
    /\ log = <<"starting runner", "starting worker", "interrupt",
               "ending worker", "ending runner">>

\* C15: no step clears the stop event: once set it is set in every later
\* state, whoever steps (wrapper, body, __exit__, handler, run_safe), and a
\* step that sets it again leaves it set.
C15_StopOneWay ==
    [][stop => stop']_vars

C15_Witness ==
    /\ cfg.scenario = "runner" /\ stop
    /\ nint = 1 /\ handler = "idle"
    /\ Carried(Owned) = 1 /\ ust[Owned] = "done"
    /\ Did("set")

\* C16: every object holds the stop event and the errors queue of the one
\* that created it: the worker those of the Runner (or of the caller), each
\* unit those of its worker; so all the objects built hold one and the same
\* event and queue, and every started unit is one of them.
C16_SharedStopAndErrors ==
    /\ bound.runner = Created
    /\ bound.worker \in {Unbound, bound.runner}
    /\ \A u \in Units :
          /\ bound.unit[u] \in {Unbound, bound.runner}
          /\ (cfg.scenario # "unit" /\ bound.unit[u] # Unbound)
                => bound.unit[u] = bound.worker
          /\ ust[u] # "created" => (cfg.host = "Other" \/ bound.unit[u] = bound.runner)
    /\ (pc \in BodyPcs \cup ExitPcs \cup {"w_enter", "r_get"})
          => bound.worker = bound.runner

C16_Witness ==
    /\ cfg.scenario = "runner" /\ pc = "r_get"
    /\ bound.worker = Created
    /\ \A u \in Units : ust[u] = "done" /\ bound.unit[u] = Created
    /\ \E u \in Units \ {Owned} : Carried(u) = 1
    /\ stop

\* the position of the main thread before anything was constructed
Start0 ==
    CASE cfg.scenario = "unit" -> "t_new"
      [] cfg.scenario = "scope" -> "w_init"
      [] OTHER -> "r_signal"

\* C17: when the stop argument is not an Event or the errors argument is not
\* a Queue, the construction of the worker or of the unit goes straight to
\* the raise of an AssertionError: nothing is bound, no unit is started,
\* nothing is put on the errors queue and the stop event is not set.
C17_BadArgsAssert ==
    (~cfg.stopIsEvent \/ ~cfg.errorsIsQueue) =>
        /\ pc \in {Start0, "done"}
        /\ pc = "done" => exc.cls = "AssertionError"
        /\ pc = Start0 => exc = NoExc
        /\ stop = cfg.stop0 /\ errors = cfg.errors0
        /\ \A u \in Units : ust[u] = "created" /\ bound.unit[u] = Unbound
        /\ bound.worker = Unbound /\ calls = <<>>

C17_Witness ==
    /\ cfg.scenario = "scope" /\ cfg.flavor = "WorkerSafeThread"
    /\ cfg.stopIsEvent /\ ~cfg.errorsIsQueue
    /\ pc = "done" /\ exc = AssertionError("errors")
    /\ ~stop /\ errors = <<>>

\* C18: a @safe method called on an object of another class ends at once
\* with an AssertionError for its caller; the body is not run, the stop
\* event and the errors queue stay as they were.
C18_SafeRejectsOther ==
    (cfg.scenario = "unit" /\ cfg.host = "Other") =>
        /\ pc \in {"t_new", "t_start", "done"}
        /\ pc = "done" => exc = AssertionError("safe")
        /\ ~ran[Owned] /\ ust[Owned] = "created"
        /\ stop = cfg.stop0 /\ errors = cfg.errors0

C18_Witness ==
    /\ cfg.scenario = "unit" /\ cfg.kind = "method" /\ cfg.host = "Other"
    /\ cfg.body[Owned] = "raise_exc" /\ ~cfg.stop0 /\ cfg.errors0 = <<>>
    /\ pc = "done" /\ exc = AssertionError("safe")
    /\ ~stop /\ errors = <<>> /\ ~ran[Owned]

\* run_safe installs its handler once, before the worker is constructed
HandlerInstalledOnce ==
    /\ [](cfg.scenario = "runner" =>
             /\ handler = "none" <=> pc = "r_signal"
             /\ bound.worker # Unbound => handler # "none")
    /\ [][(handler = "none" /\ handler' # "none") =>
             (pc = "r_signal" /\ pc' = "w_init" /\ bound.worker = Unbound)]_vars

\* C19 (as stated): the handler is installed once, before the worker is
\* constructed, and an interrupt delivered after run_safe has terminated
\* enqueues nothing.
C19_HandlerForRunSafeOnly ==
    /\ HandlerInstalledOnce
    /\ [][(pc = "done" /\ nint' > nint) => errors' = errors]_vars

\* C19 (amended): the handler is installed once, before the worker is
\* constructed, and it is never removed: it is still in effect after
\* run_safe has terminated, when an interrupt can still be delivered and
\* still enqueues the sentinel (and then sets the stop event).
C19_HandlerStaysInstalled ==
    /\ HandlerInstalledOnce
    /\ []((cfg.scenario = "runner" /\ pc = "done" /\ handler = "idle"
             /\ nint < MaxInterrupts) => ENABLED OnSigint)
    /\ [][/\ handler # "none" => handler' # "none"
          /\ nint' > nint => (errors' = Append(errors, NoneRec) /\ handler' = "put")
          /\ (handler = "put" /\ handler' # handler) => (stop' /\ handler' = "idle")
         ]_vars

C19_Witness ==
    /\ cfg.scenario = "runner" /\ pc = "done"
    /\ exc = EmptyErrorsQueueError /\ reason = NoReason
    /\ nint = 1 /\ errors = <<NoneRec>> /\ handler = "idle" /\ stop

\* C20: run_safe invokes at most one foreground blocker, after it started
\* the worker's thread: the run_main argument if given, else the worker's
\* run_main if it has one, else wait(stop); the worker's __exit__ begins
\* only when that blocker has ended (or, no blocker being invoked, when the
\* start of the thread failed).
C20_OneBlockerByPriority ==
    /\ Len(mains) <= 1
    /\ mains # <<>> =>
          /\ cfg.scenario = "runner" /\ ust[Owned] # "created"
          /\ cfg.argRunMain => mains[1] = "run_main"
          /\ (~cfg.argRunMain /\ cfg.workerRunMain) => mains[1] = "worker.run_main"
          /\ (~cfg.argRunMain /\ ~cfg.workerRunMain) => mains[1] = "wait"
    /\ (cfg.scenario = "runner" /\ (pc \in ExitPcs \cup {"r_get"} \/ calls # <<>>))
          => \/ Len(mains) = 1 /\ blocked # "none"
             \/ mains = <<>> /\ blocked = "raise" /\ ust[Owned] = "created"
    /\ (mains = <<"wait">> /\ blocked # "raise") => stop

C20_Witness ==
    /\ cfg.scenario = "runner" /\ cfg.argRunMain /\ cfg.workerRunMain
    /\ mains = <<"run_main">> /\ blocked = "stop"
    /\ pc = "done" /\ Returned(calls)

\* run_safe blocks in wait(stop) (no run_main given, none in the worker) and
\* no unit body sets the stop event itself
DefaultWait ==
    /\ cfg.scenario = "runner" /\ Blocker = "wait"
    /\ \A u \in Units : cfg.body[u] # "set_stop"

\* C25: in run_safe with the default wait and no body setting the stop event
\* itself, the stop event is set, before the worker's __exit__ sets it, only
\* by a safe wrapper or by the interrupt handler, after the record was
\* enqueued: when the event is set or the wait has returned the queue holds
\* a record, and run_safe never raises EmptyErrorsQueueError.
C25_WaitReturnsWithRecord ==
    /\ [](DefaultWait =>
            /\ (stop /\ ~Did("set")) => errors # <<>>
            /\ (blocked = "stop" /\ reads = 0) => errors # <<>>
            /\ exc # EmptyErrorsQueueError)
    /\ [][(DefaultWait /\ ~stop /\ stop' /\ ~Did("set")')
             => (errors # <<>> /\ errors' = errors)]_vars

C25_Witness ==
    /\ DefaultWait /\ pc = "done" /\ blocked = "stop" /\ reads = 1
    /\ nint = 1 /\ reason = NoneRec /\ exc = NoExc /\ errors = <<>>
    /\ cfg.body[Owned] = "wait_stop" /\ ust[Owned] = "done"

\* C26: when several records are on the errors queue, run_safe acts only on
\* the record enqueued first and leaves the others on the queue: a failure
\* enqueued before the interrupt sentinel is re-raised, a failure enqueued
\* after the sentinel is not reported and run_safe returns normally.
C26_FirstRecordWins ==
    /\ [][RunSafeEnds =>
             /\ reason' = errors[1]
             /\ errors' = [i \in 1..(Len(errors) - 1) |-> errors[i + 1]]
             /\ exc' = (IF errors[1] = NoneRec THEN NoExc ELSE errors[1].error)
         ]_vars
    /\ []((cfg.scenario = "runner" /\ pc = "done" /\ reads = 1) =>
             /\ reason = NoneRec => exc = NoExc
             /\ \A u \in Units : reason = RecordOf(u) => exc = BodyExc(u)
             /\ reason = NoReason => exc = EmptyErrorsQueueError)

C26_Witness ==
    /\ cfg.scenario = "runner" /\ pc = "done" /\ reads = 1
    /\ reason = NoneRec /\ exc = NoExc
    /\ errors = <<RecordOf(Owned)>> /\ nint = 1

\* C27 (as stated): every run_safe invocation that is over has read the
\* errors queue exactly once, after the worker's scope was exited.
C27_ReadExactlyOnce ==
    /\ (cfg.scenario = "runner" /\ pc = "done") => reads = 1
    /\ reads > 0 => (Returned(calls) /\ stop)

\* C27 (amended): run_safe reads the errors queue at most once, only after
\* the worker's __exit__ has returned with the stop event set and nothing
\* propagating, never while the scope is open; an invocation that is over
\* has read it exactly once if the with statement ended without an
\* exception, and not at all if an exception left the with statement.
C27_ReadOnceAfterScope ==
    /\ [](/\ reads <= 1
          /\ cfg.scenario # "runner" => reads = 0
          /\ pc = "r_get" => (Returned(calls) /\ stop /\ exc = NoExc /\ reads = 0)
          /\ reads = 1 => (pc = "done" /\ Returned(calls) /\ stop)
          /\ (cfg.scenario = "runner" /\ pc = "done") =>
                (reads = 1 <=> (Returned(calls) /\ exc \notin
                                   {HookError, MainError, KeyboardInterrupt,
                                    StartError})))
    /\ [][reads' # reads =>
             (pc = "r_get" /\ pc' = "done" /\ reads' = reads + 1)]_vars

C27_Witness ==
    /\ cfg.scenario = "runner" /\ pc = "done" /\ reads = 1
    /\ Returned(calls) /\ stop /\ blocked = "early"
    /\ exc = EmptyErrorsQueueError

\* no unit ever fails or sets the stop event, no interrupt, the wait not
\* made to raise
Quiet ==
    /\ DefaultWait
    /\ \A u \in Units : ~Raises(cfg.body[u])
    /\ nint = 0 /\ blocked # "raise"

\* C30: with the default wait, run_safe leaves its blocked state by a return
\* of the wait only once the stop event is set; the normal completion of the
\* worker's thread body does not end it: as long as no unit fails and no
\* interrupt is delivered, the stop event stays unset, the wait cannot
\* return, and run_safe never reaches the worker's __exit__ nor its end.
C30_CompletionDoesNotEndRunSafe ==
    /\ [][(cfg.scenario = "runner" /\ Blocker = "wait"
             /\ pc \in {"r_block", "r_poll"} /\ pc' \notin {"r_block", "r_poll"}
             /\ blocked' # "raise") => stop]_vars
    /\ [](Quiet =>
            /\ ~stop /\ blocked = "none" /\ calls = <<>> /\ reads = 0
            /\ pc \notin ExitPcs \cup {"r_get"}
            /\ pc = "done" => exc = HookError
            /\ ~ENABLED RunSafeBlockReturn)

C30_Witness ==
    /\ Quiet /\ pc = "r_block" /\ ~stop
    /\ cfg.body[Owned] = "return" /\ ust[Owned] = "done"
    /\ \A u \in Units : ust[u] = "done"

\* a unit fails while run_safe, given a WorkerSafeThread whose body ends once
\* the stop event is set, is blocked in the default wait
FailsInWait ==
    /\ DefaultWait /\ cfg.flavor = "WorkerSafeThread"
    /\ cfg.body[Owned] # "forever"
    /\ pc = "r_block"
    /\ \E u \in Units : ust[u] = "caught"

\* a hook raised, or the wait itself raised
Aborted == exc = HookError \/ blocked = "raise"

\* run_safe is over and has raised a failure a unit captured
RaisedFailure ==
    /\ pc = "done" /\ reads = 1
    /\ \E u \in Units : reason = RecordOf(u) /\ exc = BodyExc(u)

\* C24 (as stated): under fair scheduling, once a unit fails while run_safe
\* is blocked in the default wait, run_safe eventually terminates by raising
\* a captured failure, the owned unit having terminated (hooks and the wait
\* not raising).
C24_FailureAlwaysRaised ==
    FailsInWait ~> ((RaisedFailure /\ ust[Owned] = "done") \/ Aborted)

\* C24 (amended): under fair scheduling, once a unit fails while run_safe
\* is blocked in the default wait, run_safe eventually terminates having
\* read one record, the owned unit having terminated before; it raises a
\* captured failure if no interrupt was handled, and returns normally only
\* on the sentinel of an interrupt enqueued before the failure.
C24_FailureEndsRunSafe ==
    /\ FailsInWait ~>
          ((pc = "done" /\ reads = 1 /\ ust[Owned] = "done"
              /\ (RaisedFailure \/ (reason = NoneRec /\ exc = NoExc)))
           \/ Aborted)
    /\ []((DefaultWait /\ cfg.flavor = "WorkerSafeThread" /\ reads = 1) =>
             /\ ust[Owned] = "done"
             /\ RaisedFailure \/ (reason = NoneRec /\ exc = NoExc /\ nint > 0)
             /\ nint = 0 => RaisedFailure)

C24_Witness ==
    /\ DefaultWait /\ cfg.flavor = "WorkerSafeThread"
    /\ cfg.body[Owned] = "wait_stop" /\ ust[Owned] = "done"
    /\ RaisedFailure /\ reason = RecordOf(2) /\ nint = 0

\* the owned unit runs a body that never looks at the stop event
Stuck ==
    /\ cfg.flavor \in Owners /\ cfg.body[Owned] = "forever" /\ ran[Owned]

\* C29: under fair scheduling the __exit__ of a WorkerSafeThread or
\* WorkerSafeTimer whose body blocks only on the stop event always ends,
\* the stop event being set before the join; with a body that never
\* observes the stop event and never returns, once that body runs the
\* __exit__ never returns (its join cannot end; only a hook that raises
\* leaves it) and run_safe never reads the queue.
C29_CooperativeExitTerminates ==
    /\ (cfg.flavor \in Owners /\ cfg.body[Owned] = "wait_stop" /\ pc = "x_set")
          ~> (ExitOver /\ pc \notin ExitPcs /\ stop)
    /\ []((cfg.flavor \in Owners /\ Did("join")) => (Did("set") /\ stop))
    /\ [](Stuck =>
            /\ ust[Owned] = "running"
            /\ ~Returned(calls) /\ reads = 0
            /\ pc = "x_join" => ~ENABLED ExitJoin
            /\ (cfg.scenario = "runner" /\ pc = "done") => Aborted)

C29_Witness ==
    /\ cfg.flavor = "WorkerSafeTimer" /\ cfg.body[Owned] = "wait_stop"
    /\ ran[Owned] /\ ust[Owned] = "done"
    /\ calls = <<"set", "alive", "hook", "cancel", "join", "ret">>
    /\ pc = "done" /\ exc = NoExc

\* the teardown of the rescheduling timer raised RuntimeError: join() was
\* called on the timer the function had just assigned and not yet started
JoinedUnstarted ==
    /\ exc = RuntimeError /\ pc = "done"
    /\ ref.timer = 2 /\ ust[2] = "created" /\ finished[2]

\* the teardown returned and the timer worker.timer refers to is waiting,
\* not cancelled: its function will run
Orphan ==
    /\ Returned(calls) /\ pc = "done"
    /\ ref.timer = 2 /\ ust[2] = "waiting" /\ ~finished[2]

\* C28: with the self-rescheduling timer function, started by the with
\* block, under every interleaving of its assign-then-start with the
\* is_alive check, the cancel and the join of the teardown,
\* WorkerSafeTimer.__exit__ does not raise, and once it has returned the
\* timer worker.timer refers to is not alive and will not run its function
\* (it has ended, or it is cancelled).
C28_NoOrphanTimer ==
    (/\ cfg.flavor = "WorkerSafeTimer" /\ cfg.body[Owned] = "reschedule"
     /\ ust[Owned] # "created") =>
        /\ (ExitOver /\ exc # HookError) => Returned(calls)
        /\ Returned(calls) =>
              /\ ~Alive(ref.timer)
              /\ ust[ref.timer] = "done" \/ finished[ref.timer]

\* the operations that require authentication
AuthOps == {"send_request", "get_token_header"} \cup Verbs

\* C21: an operation that requires authentication (send_request, hence
\* get, post, put, patch, delete, and get_token_header) called on a client
\* whose token is None raises NotAuthenticatedError, sends no request and
\* leaves the token and mute_raise as they were.
C21_UnauthenticatedRaises ==
    [][(http' # http /\ http.token = "None" /\ http'.op \in AuthOps) =>
          /\ http'.last = Raised("NotAuthenticatedError")
          /\ http'.sent = http.sent
          /\ http'.token = http.token /\ http'.mute = http.mute
      ]_vars

C21_Witness ==
    /\ http.token = "None" /\ http.op = "get"
    /\ http.last = Raised("NotAuthenticatedError") /\ http.sent = <<>>

\* C22: authenticate sends nothing and leaves the token when a token is
\* already there; otherwise, whenever it returns without raising, the token
\* is set (not None), and no authenticated operation raises
\* NotAuthenticatedError while it is.
C22_AuthenticateSetsToken ==
    [][/\ (http' # http /\ http'.op = "authenticate") =>
             IF Truthy(http.token)
                THEN http'.sent = http.sent /\ http'.token = http.token
                ELSE http'.last.kind = "return" => http'.token # "None"
       /\ (http' # http /\ http.token # "None" /\ http'.op \in AuthOps) =>
             http'.last # Raised("NotAuthenticatedError")
      ]_vars

\* authenticate returned on a 2xx answer without a token: the token is None
TokenStillNone ==
    /\ http.op = "authenticate" /\ http.answer = "ok"
    /\ http.last = Return("None") /\ http.token = "None"

Cooperative ==
    /\ DefaultWait /\ cfg.flavor = "WorkerSafeThread"
    /\ cfg.body[Owned] # "forever"

\* how many sentinels the queue q holds
Sentinels(q) == Cardinality({i \in DOMAIN q : q[i] = NoneRec})

\* C31: an interrupt delivered at any point after run_safe registered its
\* handler enqueues the sentinel and then sets the stop event; run_safe
\* then terminates under fair scheduling (the body ending once stop is
\* set): a wait reached with stop set can return at once, the started
\* thread has terminated when the queue is read, and the outcome is a normal
\* return when the record read is the sentinel, the re-raise of a failure
\* only when its record was enqueued before the sentinel.
C31_InterruptAlwaysEnds ==
    /\ (Cooperative /\ nint > 0) ~> (pc = "done")
    /\ [][/\ nint' > nint =>
                (handler # "none" /\ errors' = Append(errors, NoneRec))
          /\ (handler = "put" /\ handler' = "idle") => stop'
         ]_vars
    /\ []((nint > 0 /\ handler = "idle") => stop)
    /\ []((Cooperative /\ pc = "r_block" /\ stop /\ MainFree)
             => ENABLED RunSafeBlockReturn)
    /\ []((Cooperative /\ reads = 1 /\ nint > 0) =>
             /\ ust[Owned] = "done" /\ stop
             /\ reason = NoneRec => exc = NoExc
             /\ reason # NoneRec =>
                   /\ RaisedFailure
                   /\ Sentinels(errors) = nint)

C31_Witness ==
    /\ Cooperative /\ pc = "done" /\ reads = 1 /\ nint = 1
    /\ cfg.body[Owned] = "wait_stop"
    /\ Before("interrupt", "starting worker")
    /\ reason = NoneRec /\ exc = NoExc /\ Did("join") /\ Returned(calls)

\* C32: a failure raised by the enter_worker or the exit_worker hook is not
\* captured: the step in which the hook raises ends the scope entry or the
\* scope exit with that failure, leaves the errors queue and the stop event
\* as they are, and no record on the queue, nor the one run_safe retrieves,
\* ever carries it; in run_safe it leaves before the queue is read.
C32_HookFailurePropagates ==
    /\ [](/\ \A i \in DOMAIN errors : errors[i].error # HookError
          /\ reason.error # HookError
          /\ exc = HookError =>
                /\ pc = "done" /\ reads = 0
                /\ calls = <<>> \/ (Did("hook") /\ calls[Len(calls)] = "raise"))
    /\ [][(exc' = HookError /\ exc # HookError) =>
             /\ pc \in {"w_enter", "x_hook"}
             /\ errors' = errors /\ stop' = stop]_vars

C32_Witness ==
    /\ cfg.scenario = "scope" /\ pc = "done" /\ exc = HookError
    /\ calls = <<>> /\ errors = <<>> /\ ~stop
    /\ bound.worker # Unbound

\* C33: when exit_worker raises in the __exit__ of a WorkerSafeThread or
\* WorkerSafeTimer (which calls it only with the owned unit alive), the
\* unit is neither cancelled nor joined: __exit__ has set the stop event,
\* seen the unit alive, called the hook and raised, whatever the unit does
\* meanwhile; in run_safe the hook's failure is raised without the queue
\* being read, whatever records it holds.
C33_HookFailureSkipsJoin ==
    (cfg.flavor \in Owners /\ exc = HookError /\ Did("hook")) =>
        /\ calls = <<"set", "alive", "hook", "raise">>
        /\ stop /\ pc = "done"
        /\ ust[Owned] # "created"
        /\ finished[Owned] => ust[Owned] = "done"
        /\ reads = 0 /\ reason = NoReason

C33_Witness ==
    /\ cfg.scenario = "runner" /\ cfg.flavor = "WorkerSafeThread"
    /\ exc = HookError /\ Did("hook") /\ pc = "done"
    /\ Alive(Owned) /\ cfg.body[Owned] = "wait_stop"
    /\ errors = <<RecordOf(2)>> /\ reads = 0

\* the place of an operation in the teardown
Rank(op) ==
    CASE op = "set" -> 1
      [] op \in {"alive", "dead"} -> 2
      [] op = "hook" -> 3
      [] op = "cancel" -> 4
      [] op = "join" -> 5
      [] OTHER -> 6

\* C34: the teardown of a worker runs in a fixed order: the stop event is
\* set first, then the exit_worker hook runs, then (timer flavor only) the
\* owned timer is cancelled, then the owned unit is joined; while the hook
\* runs the stop event is set and the owned unit has been neither cancelled
\* nor joined, and neither the cancel nor the join ever precedes the hook.
C34_TeardownOrder ==
    /\ \A i, j \in DOMAIN calls : i < j => Rank(calls[i]) < Rank(calls[j])
    /\ calls # <<>> => (calls[1] = "set" /\ stop)
    /\ Did("cancel") => (cfg.flavor = "WorkerSafeTimer" /\ Did("hook"))
    /\ Did("join") =>
          /\ cfg.flavor \in Owners /\ Did("hook")
          /\ cfg.flavor = "WorkerSafeTimer" => Did("cancel")
    /\ pc = "x_hook" =>
          /\ stop /\ Did("set") /\ ~Did("hook")
          /\ ~Did("cancel") /\ ~Did("join")
          /\ finished[Owned] => ust[Owned] = "done"
    /\ pc = "x_cancel" => (Did("hook") /\ ~Did("join"))
    /\ pc = "x_join" => Did("hook")

C34_Witness ==
    /\ cfg.scenario = "scope" /\ cfg.flavor = "WorkerSafeTimer"
    /\ calls = <<"set", "alive", "hook", "cancel", "join", "ret">>
    /\ cfg.body[Owned] = "return" /\ ran[Owned] /\ exc = MainError

\* the place of the statement st in the construction c (0: not run)
PlaceOf(c, st) ==
    IF \E i \in DOMAIN c : c[i] = st
       THEN CHOOSE i \in DOMAIN c : c[i] = st ELSE 0

\* C35: the construction of a Worker, WorkerSafeThread or WorkerSafeTimer
\* calls init_worker exactly once, after stop and errors were bound and,
\* for the specialized workers, after the placeholder unit was created; the
\* unit init_worker assigns is then the worker's unit: it is the one
\* run_safe starts (its function runs, not the placeholder's) and the one
\* __exit__ joins.
C35_InitWorkerOnceAndLast ==
    (cfg.scenario # "unit" /\ bound.worker # Unbound) =>
        /\ Cardinality({i \in DOMAIN ref.built : ref.built[i] = "init_worker"})
              = (IF cfg.flavor = "BaseWorker" THEN 0 ELSE 1)
        /\ PlaceOf(ref.built, "bind") = 1
        /\ cfg.flavor \in Owners <=> PlaceOf(ref.built, "placeholder") = 2
        /\ cfg.flavor # "BaseWorker" =>
              PlaceOf(ref.built, "init_worker") = Len(ref.built)
        /\ (cfg.scenario = "runner" /\ cfg.flavor # "BaseWorker") =>
              /\ ref.target = cfg.body[Owned]
              /\ BodyOf(Owned) = cfg.body[Owned]
              /\ ref.timer = Owned /\ JoinTarget = Owned
              /\ (cfg.body[Owned] # Placeholder /\ Carried(Owned) > 0) =>
                    RecordOf(Owned).type = ErrCls(cfg.body[Owned])

C35_Witness ==
    /\ cfg.scenario = "runner" /\ cfg.flavor = "WorkerSafeThread"
    /\ ref.built = <<"bind", "placeholder", "init_worker">>
    /\ cfg.body[Owned] = "raise_exc" /\ ref.target = "raise_exc"
    /\ pc = "done" /\ Did("join") /\ reason.type = "MyError"

\* the main thread is inside wait(stop): in stop.wait(), at the test of the
\* Windows loop, or in stop.wait(interval)
InWait == cfg.scenario = "runner" /\ Blocker = "wait" /\ pc \in {"r_block", "r_poll"}

\* C36: wait(stop) returns only in a state where the stop event is set, on
\* every platform (stop.wait() blocking for good, or the polling loop of
\* Windows); once the stop event is set it eventually returns (the main
\* thread being scheduled; the test double of stop.wait() may raise
\* instead); no step of wait changes the stop event or the errors queue.
C36_WaitReturnsOnlyWhenSet ==
    /\ [][(InWait /\ pc' \notin {"r_block", "r_poll"} /\ blocked' # "raise")
            => (stop /\ stop' /\ blocked' = "stop" /\ pc = "r_block")]_vars
    /\ [][(InWait /\ pc' # pc) => (stop' = stop /\ errors' = errors)]_vars
    /\ [](pc = "r_poll" => (InWait /\ cfg.platform = "Windows"))
    /\ (InWait /\ stop) ~> (blocked \in {"stop", "raise"})

C36_Witness ==
    /\ cfg.platform = "Windows" /\ cfg.body[Owned] = "raise_exc"
    /\ pc = "x_set" /\ blocked = "stop" /\ stop
    /\ errors = <<RecordOf(Owned)>> /\ nint = 0

\* C37: run_safe returns normally exactly when the record it retrieved is
\* the sentinel None; only the interrupt handler enqueues the sentinel, the
\* record the safe wrapper enqueues is the triple of a failure and never the
\* sentinel; so a captured failure that is retrieved is re-raised, never
\* reported as a clean stop, and a retrieved sentinel never raises.
C37_SentinelMeansCleanStop ==
    /\ []((cfg.scenario = "runner" /\ pc = "done") =>
            /\ (exc = NoExc) <=> (reads = 1 /\ reason = NoneRec)
            /\ \A u \in Units : reason = RecordOf(u) =>
                  (exc = BodyExc(u) /\ exc # NoExc)
            /\ (reads = 1 /\ reason \notin {NoneRec, NoReason}) =>
                  (exc = WithTraceback(reason.error, reason.traceback)
                   /\ exc # NoExc))
    /\ [](\A u \in Units : RecordOf(u) # NoneRec /\ RecordOf(u).error # NoExc)
    /\ [][Sentinels(errors') > Sentinels(errors) =>
            (handler = "idle" /\ handler' = "put" /\ nint' = nint + 1)]_vars
    /\ [][(cfg.scenario # "unit" /\ Len(errors') > Len(errors) /\ nint' = nint) =>
            \E u \in Units : /\ ust[u] = "caught"
                             /\ errors' = Append(errors, RecordOf(u))
                             /\ Sentinels(errors') = Sentinels(errors)]_vars

C37_Witness ==
    /\ cfg.scenario = "runner" /\ pc = "done" /\ reads = 1
    /\ reason = NoneRec /\ exc = NoExc
    /\ errors = <<RecordOf(Owned)>> /\ nint = 1

\* the failures of the main thread inside the with block of run_safe
MainFailures == {MainError, StartError}

\* C38: a failure raised in the main thread inside the with block of
\* run_safe (run_main, the worker's run_main, worker.thread.start()), the
\* worker being a WorkerSafeThread, goes through the worker's __exit__ and
\* out of run_safe: the stop event is set, the thread, if alive, is joined,
\* the failure is the exception run_safe raises unless the exit hook raises
\* in its place, and the errors queue is not read, its records staying
\* where they are.
C38_MainFailureBypassesQueue ==
    /\ []((cfg.scenario = "runner" /\ cfg.flavor = "WorkerSafeThread"
             /\ exc \in MainFailures) =>
            /\ reads = 0 /\ reason = NoReason
            /\ pc \in ExitPcs \cup {"done"}
            /\ blocked = "raise"
            /\ exc = StartError => (ust[Owned] = "created" /\ mains = <<>>)
            /\ exc = MainError =>
                  (mains = <<Blocker>> /\ Blocker # "wait"
                   /\ ust[Owned] # "created")
            /\ pc = "done" =>
                  /\ stop /\ ~Alive(Owned)
                  /\ calls \in {<<"set", "dead", "ret">>,
                                <<"set", "alive", "hook", "join", "ret">>}
                  /\ \A u \in Units : Carried(u) = Count(errors, u))
    /\ [][(cfg.scenario = "runner" /\ exc \in MainFailures /\ exc' # exc) =>
            (pc = "x_hook" /\ exc' = HookError)]_vars
    /\ [][(cfg.scenario = "runner" /\ exc \in MainFailures) =>
            (reads' = reads /\ (errors' = errors \/
                                \E r \in {NoneRec} \cup {RecordOf(u) : u \in Units} :
                                    errors' = Append(errors, r)))]_vars

C38_Witness ==
    /\ cfg.scenario = "runner" /\ cfg.flavor = "WorkerSafeThread"
    /\ Blocker = "run_main" /\ exc = MainError /\ pc = "done"
    /\ calls = <<"set", "alive", "hook", "join", "ret">>
    /\ errors = <<RecordOf(2)>> /\ reads = 0

\* the step by which run_safe is called again on the same Runner
CalledAgain == pc = "done" /\ pc' = "r_signal"

\* C39: the Runner has the stop event and the errors queue its constructor
\* created, unset and empty before the first run_safe; run_safe never
\* replaces, clears or empties them (the event, once set, stays set; the
\* queue only gains records and loses the one record run_safe retrieves).
\* A second run_safe on the same Runner, the first one having gone through
\* its worker's __exit__, therefore starts with the event set and with the
\* records the first one left: the default wait, reached with the event
\* set, can return at once and cannot go on polling, and the record
\* retrieved is the oldest one on the queue, a leftover if there is one.
C39_RunnerStateIsNeverReset ==
    /\ [](/\ bound.runner = Created
          /\ Runs <= MaxRuns
          /\ Runs = 0 => (~stop /\ errors = <<>> /\ pc = "r_signal")
          /\ (Runs = 2 /\ stop /\ pc = "r_block" /\ Blocker = "wait" /\ MainFree) =>
                (ENABLED RunSafeBlockReturn /\ ~ENABLED WaitPoll))
    /\ [][stop => stop']_vars
    /\ [][\/ errors' = errors
          \/ Len(errors') = Len(errors) + 1 /\ SubSeq(errors', 1, Len(errors)) = errors
          \/ pc = "r_get" /\ errors # <<>> /\ errors' = Tail(errors)
                          /\ reason' = Head(errors)]_vars
    /\ [][CalledAgain =>
            /\ stop' = stop /\ errors' = errors /\ bound'.runner = bound.runner
            /\ calls # <<>> => stop]_vars
    /\ [][(pc = "r_signal" /\ pc' # pc) => (stop' = stop /\ errors' = errors)]_vars

C39_Witness ==
    /\ Runs = 2 /\ pc = "done" /\ reads = 1 /\ DefaultWait
    /\ blocked = "stop" /\ reason = NoneRec /\ exc = NoExc
    /\ \E i, j \in DOMAIN log :
          i < j /\ log[i] = "interrupt" /\ log[j] = "starting runner"
    /\ errors = <<RecordOf(Owned)>>

====
